---- MODULE Spec2Model ----
(***************************************************************************)
(* TimeFusion: the project catalog, the write coordinator and the routing  *)
(* table of src/src/database.rs, as a state machine.                        *)
(*                                                                         *)
(* The object store holds one transactional table per URI (a row log).     *)
(* The catalog maps a project id to (conn_str, storage options, handle);   *)
(* a handle is an Arc<RwLock<DeltaTable>>: an in-memory snapshot of the    *)
(* table at its URI, guarded by a FIFO-fair readers/writer lock.  Every    *)
(* .await of the source is a step boundary: the tasks interleave there.    *)
(***************************************************************************)
EXTENDS Integers, Sequences, FiniteSets, TLC

\* ------------------------------------------------------------------ bounds
MaxCalls == 3          \* operations started after construction
MaxFilters == 2        \* longest filter list of the routing specification
MaxNots == 2           \* deepest nesting of NOT around a filter

\* ------------------------------------------------------------- the domains
Tasks == {"t1", "t2", "t3"}     \* the tokio tasks that may run a call
Sessions == {"t1", "t2"}        \* the tasks of the two-session specifications
NoTask == "none"
DefaultProject == "default"
Projects == {"default", "test_project"}            \* ids register_project is called with
ProjectIds == {"default", "test_project", "missing"}   \* ids a query may name
Uris == {"u0", "u1"}
DefaultUri == "u0"                       \* storage_uri built by Database::new
\* Each project has its table at its own URI.
UriOf(p) == IF p = "default" THEN "u0" ELSE "u1"
NoEntry == [conn |-> "none", opts |-> {}, table |-> 0]

\* Credentials a caller may pass (None is "none"): a key, an empty secret.
Creds == { [ak |-> "key", sk |-> "", ep |-> "http://s3"] }
ConfigCreds == [ak |-> "key", sk |-> "secret", ep |-> "http://s3"]

\* A record of a RecordBatch, with the columns the records of the tests
\* set; project_id is written pid.  Default is OtelLogsAndSpans::default():
\* empty strings, the epoch, and None (written "null") for every optional
\* column; the optional columns a record does not carry here are None.
Default ==
    [pid |-> "", id |-> "", timestamp |-> "1970-01-01T00:00:00Z",
     observed_timestamp |-> "null", name |-> "null", status_code |-> "null",
     status_message |-> "null", level |-> "null", duration |-> "null",
     start_time |-> "null", context___trace_id |-> "null",
     context___span_id |-> "null"]

\* The two records of create_test_records.
TestSpan1 ==
    [Default EXCEPT !.pid = "test_project", !.timestamp = "2023-01-01T10:00:00Z",
                    !.observed_timestamp = "2023-01-01T10:00:00Z", !.id = "span1",
                    !.name = "test_span_1", !.context___trace_id = "trace1",
                    !.context___span_id = "span1",
                    !.start_time = "2023-01-01T10:00:00Z", !.duration = "100000000",
                    !.status_code = "OK", !.level = "INFO"]
TestSpan2 ==
    [Default EXCEPT !.pid = "test_project", !.timestamp = "2023-01-01T10:10:00Z",
                    !.observed_timestamp = "2023-01-01T10:10:00Z", !.id = "span2",
                    !.name = "test_span_2", !.context___trace_id = "trace2",
                    !.context___span_id = "span2",
                    !.start_time = "2023-01-01T10:10:00Z", !.duration = "200000000",
                    !.status_code = "ERROR", !.level = "ERROR",
                    !.status_message = "Error occurred"]
create_test_records == << TestSpan1, TestSpan2 >>

\* The record test_sql_insert writes, and a record with only its required
\* columns.
SqlRecord ==
    [Default EXCEPT !.pid = "default", !.timestamp = "2023-02-01T15:30:00Z",
                    !.observed_timestamp = "2023-02-01T15:30:00Z", !.id = "sql_span1a",
                    !.name = "sql_test_span", !.duration = "150000000",
                    !.start_time = "2023-02-01T15:30:00Z",
                    !.context___trace_id = "sql_trace1",
                    !.context___span_id = "sql_span1", !.status_code = "OK",
                    !.status_message = "SQL inserted successfully", !.level = "INFO"]
RowPlain ==
    [Default EXCEPT !.pid = "default", !.id = "span3", !.timestamp = "2023-01-01T10:05:00Z"]

\* A batch is a sequence of records; a call passes a list of batches.
BatchLists == { <<>>,
                << create_test_records >>,
                << <<SqlRecord>>, <<RowPlain>> >> }

FairBatchLists == { << <<TestSpan2>> >> }      \* one batch of one row

None == <<>>
Some(v) == <<v>>

Ok == [ok |-> TRUE, err |-> "none"]
OkValue(v) == [ok |-> TRUE, err |-> "none", value |-> v]
Err(kind) == [ok |-> FALSE, err |-> kind]

\* ------------------------------------------------- tokio::sync::RwLock
\* A lock is [w: the writer, r: the readers, q: the FIFO queue of waiters].
FreeLock == [w |-> NoTask, r |-> {}, q |-> <<>>]

Compatible(L, m) ==
    IF m = "w" THEN L.w = NoTask /\ L.r = {} ELSE L.w = NoTask

Grant(L, t, m) ==
    IF m = "w" THEN [L EXCEPT !.w = t] ELSE [L EXCEPT !.r = @ \cup {t}]

\* Waiters are served strictly from the head of the queue.
RECURSIVE Promote(_)
Promote(L) ==
    IF L.q /= <<>> /\ Compatible(L, Head(L.q).m)
    THEN Promote(Grant([L EXCEPT !.q = Tail(@)], Head(L.q).t, Head(L.q).m))
    ELSE L

\* A variant that grants a request at once whenever the holders allow it,
\* whoever is waiting.
RequestBarging(L, t, m) ==
    IF Compatible(L, m) THEN Grant(L, t, m)
    ELSE [L EXCEPT !.q = Append(@, [t |-> t, m |-> m])]

Request(L, t, m) == Promote([L EXCEPT !.q = Append(@, [t |-> t, m |-> m])])

\* A variant in which a reader's guard is never given back.
ReleaseWriterOnly(L, t) ==
    Promote([L EXCEPT !.w = IF @ = t THEN NoTask ELSE @])

Release(L, t) ==
    Promote([L EXCEPT !.w = IF @ = t THEN NoTask ELSE @, !.r = @ \ {t}])

Holds(L, t, m) == IF m = "w" THEN L.w = t ELSE t \in L.r

\* ------------------------------------------------------------ pure helpers
RECURSIVE Flatten(_)
Flatten(B) == IF B = <<>> THEN <<>> ELSE Head(B) \o Flatten(Tail(B))

\* The rows a call writes: one per element of its batches, tagged by the call.
Row(call, record) ==
    [call |-> call, pid |-> record.pid, id |-> record.id,
     timestamp |-> record.timestamp, observed_timestamp |-> record.observed_timestamp,
     name |-> record.name, status_code |-> record.status_code,
     status_message |-> record.status_message, level |-> record.level,
     duration |-> record.duration, start_time |-> record.start_time,
     context___trace_id |-> record.context___trace_id,
     context___span_id |-> record.context___span_id]

RowsOf(id, B) ==
    LET records == Flatten(B)
    IN  [i \in 1..Len(records) |-> Row(id, records[i])]

Prefix(s, n) == SubSeq(s, 1, n)

\* ------------------------------------------------------------- expressions
Col(n) == [k |-> "col", name |-> n]
Lit(ty, v) == [k |-> "lit", ty |-> ty, v |-> v]      \* v = "null" is None
Bin(l, o, r) == [k |-> "bin", l |-> l, o |-> o, r |-> r]
Not(e) == [k |-> "not", e |-> e]
IsNotNull(e) == [k |-> "isnotnull", e |-> e]

\* e wrapped in n NOTs.
RECURSIVE NotN(_, _)
NotN(e, n) == IF n = 0 THEN e ELSE Not(NotN(e, n - 1))

\* Column("project_id") = Utf8(Some(value)) on the given sides.
IsPidColumn(e) == e.k = "col" /\ e.name = "project_id"
IsUtf8Some(e) == e.k = "lit" /\ e.ty = "Utf8" /\ e.v /= "null"

\* A variant that reads the literal on the right-hand side only.
RECURSIVE extract_project_id_left_column(_)
extract_project_id_left_column(expr) ==
    IF expr.k = "bin" THEN
        IF expr.o = "Eq" /\ IsPidColumn(expr.l) /\ IsUtf8Some(expr.r)
        THEN Some(expr.r.v) ELSE None
    ELSE IF expr.k = "not" THEN extract_project_id_left_column(expr.e)
    ELSE None

\* A variant that does not look below a NOT.
extract_project_id_no_not(expr) ==
    IF expr.k = "bin" THEN
        IF expr.o = "Eq" THEN
            IF IsPidColumn(expr.l) /\ IsUtf8Some(expr.r) THEN Some(expr.r.v)
            ELSE IF IsPidColumn(expr.r) /\ IsUtf8Some(expr.l) THEN Some(expr.l.v)
            ELSE None
        ELSE None
    ELSE None

\* A variant that also searches both sides of every other binary operator.
RECURSIVE extract_project_id_any_binary(_)
extract_project_id_any_binary(expr) ==
    IF expr.k = "bin" THEN
        IF expr.o = "Eq" /\ IsPidColumn(expr.l) /\ IsUtf8Some(expr.r) THEN Some(expr.r.v)
        ELSE IF expr.o = "Eq" /\ IsPidColumn(expr.r) /\ IsUtf8Some(expr.l) THEN Some(expr.l.v)
        ELSE IF expr.o /= "Eq" /\ extract_project_id_any_binary(expr.l) /= None
             THEN extract_project_id_any_binary(expr.l)
        ELSE IF expr.o /= "Eq" THEN extract_project_id_any_binary(expr.r)
        ELSE None
    ELSE IF expr.k = "not" THEN extract_project_id_any_binary(expr.e)
    ELSE None

RECURSIVE extract_project_id(_)
extract_project_id(expr) ==
    IF expr.k = "bin" THEN
        IF expr.o = "Eq" THEN
            IF IsPidColumn(expr.l) /\ IsUtf8Some(expr.r) THEN Some(expr.r.v)
            ELSE IF IsPidColumn(expr.r) /\ IsUtf8Some(expr.l) THEN Some(expr.l.v)
            ELSE None
        ELSE None
    ELSE IF expr.k = "not" THEN extract_project_id(expr.e)
    ELSE None

\* A variant in which the last filter with a literal wins.
RECURSIVE extract_project_id_from_filters_last(_)
extract_project_id_from_filters_last(filters) ==
    IF filters = <<>> THEN None
    ELSE IF extract_project_id_from_filters_last(Tail(filters)) /= None
         THEN extract_project_id_from_filters_last(Tail(filters))
         ELSE extract_project_id(Head(filters))

RECURSIVE extract_project_id_from_filters(_)
extract_project_id_from_filters(filters) ==
    IF filters = <<>> THEN None
    ELSE IF extract_project_id(Head(filters)) /= None
         THEN extract_project_id(Head(filters))
         ELSE extract_project_id_from_filters(Tail(filters))

\* A variant that falls back to a name other than the configured one.
ScanProjectOtherFallback(filters, default_project) ==
    IF extract_project_id_from_filters(filters) /= None
    THEN extract_project_id_from_filters(filters)[1]
    ELSE "missing"

\* The project a scan binds to: the extracted literal or the default name.
ScanProject(filters, default_project) ==
    IF extract_project_id_from_filters(filters) /= None
    THEN extract_project_id_from_filters(filters)[1]
    ELSE default_project

\* The values of the model, those of one type in ascending order: numbers,
\* timestamps, strings.
ValueOrder ==
    << "7", "100000000", "150000000", "200000000",
       "1970-01-01T00:00:00Z", "2023-01-01T10:00:00Z", "2023-01-01T10:05:00Z",
       "2023-01-01T10:10:00Z", "2023-02-01T15:30:00Z",
       "", "ERROR", "Error occurred", "INFO", "OK", "SQL inserted successfully",
       "default", "missing", "span0", "span1", "span2", "span3", "span9",
       "sql_span1", "sql_span1a", "sql_test_span", "sql_trace1",
       "test_project", "test_span_1", "test_span_2", "trace1", "trace2" >>
Rank(v) == CHOOSE i \in 1..Len(ValueOrder) : ValueOrder[i] = v

\* A comparison of two values that are not NULL.
Compare(o, a, b) ==
    CASE o = "Eq" -> a = b
      [] o = "NotEq" -> a /= b
      [] o = "Lt" -> Rank(a) < Rank(b)
      [] o = "LtEq" -> Rank(a) <= Rank(b)
      [] o = "Gt" -> Rank(a) > Rank(b)
      [] o = "GtEq" -> Rank(a) >= Rank(b)

\* The value of a column in a row; a column the row leaves None is NULL.
ColumnValue(row, name) ==
    CASE name = "project_id" -> row.pid
      [] name = "id" -> row.id
      [] name = "timestamp" -> row.timestamp
      [] name = "level" -> row.level
      [] name = "name" -> row.name
      [] name = "status_code" -> row.status_code
      [] name = "duration" -> row.duration
      [] name = "observed_timestamp" -> row.observed_timestamp
      [] name = "status_message" -> row.status_message
      [] name = "start_time" -> row.start_time
      [] name = "context___trace_id" -> row.context___trace_id
      [] name = "context___span_id" -> row.context___span_id
      [] OTHER -> "null"

\* Three-valued evaluation of a filter on a row: "t", "f" or "null".
RECURSIVE Value(_, _)
Value(row, e) ==
    IF e.k = "col" THEN ColumnValue(row, e.name)
    ELSE IF e.k = "lit" THEN e.v
    ELSE IF e.k = "not" THEN
        (IF Value(row, e.e) = "null" THEN "null"
         ELSE IF Value(row, e.e) = "t" THEN "f" ELSE "t")
    ELSE IF e.k = "isnotnull" THEN
        (IF Value(row, e.e) = "null" THEN "f" ELSE "t")
    ELSE IF e.o = "And" THEN
        (IF Value(row, e.l) = "f" \/ Value(row, e.r) = "f" THEN "f"
         ELSE IF Value(row, e.l) = "null" \/ Value(row, e.r) = "null" THEN "null"
         ELSE "t")
    ELSE IF e.o = "Or" THEN
        (IF Value(row, e.l) = "t" \/ Value(row, e.r) = "t" THEN "t"
         ELSE IF Value(row, e.l) = "null" \/ Value(row, e.r) = "null" THEN "null"
         ELSE "f")
    ELSE IF Value(row, e.l) = "null" \/ Value(row, e.r) = "null" THEN "null"
    ELSE IF Compare(e.o, Value(row, e.l), Value(row, e.r)) THEN "t" ELSE "f"

Satisfies(row, filters) == \A i \in 1..Len(filters) : Value(row, filters[i]) = "t"

\* What the engine delivers from a scan of `rows`: the rows passing every filter.
FilterRows(rows, filters) == SelectSeq(rows, LAMBDA r : Satisfies(r, filters))

\* Variants: the project_id equalities reported as exact; the filters that
\* bind no project reported as unsupported.
supports_filters_pushdown_exact(filter) ==
    [i \in 1..Len(filter) |->
        IF extract_project_id(filter[i]) /= None THEN "Exact" ELSE "Inexact"]

supports_filters_pushdown_unsupported(filter) ==
    [i \in 1..Len(filter) |->
        IF extract_project_id(filter[i]) /= None THEN "Inexact" ELSE "Unsupported"]

supports_filters_pushdown(filter) == [i \in 1..Len(filter) |-> "Inexact"]

\* A variant that hands the table the filters without the binding ones.
TableScanArgsWithoutBinding(projection, filters, limit) ==
    [projection |-> projection,
     filters |-> SelectSeq(filters, LAMBDA f : extract_project_id(f) = None),
     limit |-> limit]

\* The arguments of the bound table's scan.
TableScanArgs(projection, filters, limit) ==
    [projection |-> projection, filters |-> filters, limit |-> limit]

\* What the bound table's scan may produce for its filters: every visible row
\* that passes them, and possibly the rows it did not prune.
TableScanRows(rows, filters) == { rows, FilterRows(rows, filters) }

\* The engine evaluates again each filter not reported as exact, then applies
\* the limit.
EngineRows(rows, filters, pushdown, limit) ==
    LET kept == SelectSeq(rows, LAMBDA r :
                    \A i \in 1..Len(filters) :
                        pushdown[i] /= "Exact" => Value(r, filters[i]) = "t")
    IN  IF limit = None \/ limit[1] >= Len(kept) THEN kept ELSE Prefix(kept, limit[1])

\* ------------------------------------------------ the PostgreSQL wire
\* Text is a sequence of characters.
Insert == <<"i", "n", "s", "e", "r", "t">>
Update == <<"u", "p", "d", "a", "t", "e">>
Delete == <<"d", "e", "l", "e", "t", "e">>
\* The characters of the Unicode White_Space property, which trim_start
\* drops: those without an escape are written by their code point.
Whitespace ==
    {" ", "\n", "\t", "\r", "\f", "U+000B", "U+0085", "U+00A0", "U+1680",
     "U+2000", "U+2001", "U+2002", "U+2003", "U+2004", "U+2005", "U+2006",
     "U+2007", "U+2008", "U+2009", "U+200A", "U+2028", "U+2029", "U+202F",
     "U+205F", "U+3000"}
Letters == {"a", "d", "e", "h", "i", "l", "n", "p", "r", "s", "t", "u", "w", "c",
            "A", "D", "E", "H", "I", "L", "N", "P", "R", "S", "T", "U", "W", "C"}

LowerChar(c) ==
    CASE c = "A" -> "a" [] c = "D" -> "d" [] c = "E" -> "e" [] c = "H" -> "h"
      [] c = "I" -> "i" [] c = "L" -> "l" [] c = "N" -> "n" [] c = "P" -> "p"
      [] c = "R" -> "r" [] c = "S" -> "s" [] c = "T" -> "t" [] c = "U" -> "u"
      [] c = "W" -> "w" [] c = "C" -> "c" [] OTHER -> c

to_lowercase(q) == [i \in 1..Len(q) |-> LowerChar(q[i])]

RECURSIVE trim_start(_)
trim_start(q) ==
    IF q /= <<>> /\ Head(q) \in Whitespace THEN trim_start(Tail(q)) ELSE q

starts_with(q, prefix) ==
    Len(q) >= Len(prefix) /\ SubSeq(q, 1, Len(prefix)) = prefix

\* The handler a simple query goes to: a direct database verb or the SQL
\* engine.
do_query_route(query) ==
    LET query_lower == to_lowercase(trim_start(query))
    IN  IF starts_with(query_lower, Insert) THEN "insert_record"
        ELSE IF starts_with(query_lower, Update) THEN "update_record"
        ELSE IF starts_with(query_lower, Delete) THEN "delete_record"
        ELSE "sql"

\* The user database: bcrypt hashes, verified against a password.
Hash(pw) == [valid |-> TRUE, of |-> pw]
BadHash == [valid |-> FALSE, of |-> ""]
verify(password, hashed) == hashed.valid /\ hashed.of = password

\* users.iter().find(|u| u.username == username), then verify
verify_user(users, username, password) ==
    LET found == SelectSeq(users, LAMBDA u : u.username = username)
    IN  found /= <<>> /\ verify(password, Head(found).hashed_password)

UserDBs ==
    { << [username |-> "admin", hashed_password |-> Hash("admin123")] >>,
      << [username |-> "admin", hashed_password |-> BadHash],
         [username |-> "admin", hashed_password |-> Hash("admin123")] >>,
      << >> }

\* The first message of a connection: a Startup with its optional user and
\* password parameters, or another message.
StartupMessages ==
    { [type |-> "Startup", user |-> u, password |-> pw] :
          u \in {None, Some("admin"), Some("ghost")},
          pw \in {None, Some(""), Some("admin123"), Some("wrong")} }
    \cup { [type |-> "Query", user |-> None, password |-> None] }

\* std::env::var("PGPASSWORD")
FallbackPasswords == { None, Some("admin123"), Some("wrong") }

unwrap_or(o, d) == IF o = None THEN d ELSE o[1]

\* A variant that accepts the fallback password without the user database.
on_startup_fallback_unchecked(msg, users, fallback) ==
    IF msg.type /= "Startup" THEN "Expected Startup message"
    ELSE IF unwrap_or(msg.password, "") /= ""
         THEN (IF verify_user(users, unwrap_or(msg.user, ""), unwrap_or(msg.password, ""))
               THEN "ok" ELSE "Authentication failed")
         ELSE (IF fallback /= None THEN "ok" ELSE "No password provided")

\* on_startup: "ok" when the connection is authenticated, else the message
\* of the ApiError returned.
on_startup(msg, users, fallback) ==
    IF msg.type /= "Startup" THEN "Expected Startup message"
    ELSE IF unwrap_or(msg.password, "") /= ""
         THEN (IF verify_user(users, unwrap_or(msg.user, ""), unwrap_or(msg.password, ""))
               THEN "ok" ELSE "Authentication failed")
         ELSE (IF fallback /= None
                  /\ verify_user(users, unwrap_or(msg.user, ""), fallback[1])
               THEN "ok" ELSE "No password provided")

\* A variant that announces readiness first.
StartupRepliesReadyFirst == << "ReadyForQuery(Idle)", "AuthenticationOk" >>

\* What on_startup sends, in order, to an authenticated client.
StartupReplies == << "AuthenticationOk", "ReadyForQuery(Idle)" >>

\* Results: a DataFrame is a schema and rows of array values, each NULL or
\* with the text value_to_string gives for it.
Null == [null |-> TRUE, text |-> <<>>]
Val(text) == [null |-> FALSE, text |-> text]
value_to_string(v) == v.text

EventsSchema == << [name |-> "id", ty |-> "Int32"], [name |-> "event_name", ty |-> "Utf8"] >>
DataFrames ==
    { [schema |-> <<>>, rows |-> <<>>],
      [schema |-> EventsSchema, rows |-> <<>>],
      [schema |-> EventsSchema, rows |-> << <<Val(<<"7">>), Null>> >>],
      [schema |-> EventsSchema,
       rows |-> << <<Val(<<"1", "0">>), Val(<<"u", "p">>)>>, <<Val(<<"2">>), Null>> >>] }

\* portal.result_column_format
ResultFormats == { "UnifiedText", "UnifiedBinary" }

into_pg_type(dt) ==
    CASE dt = "Utf8" -> "TEXT" [] dt = "Timestamp" -> "TIMESTAMP"
      [] dt = "Int64" -> "INT8" [] dt = "Int32" -> "INT4" [] OTHER -> "TEXT"

pgwire_schema_from_arrow(schema) ==
    [i \in 1..Len(schema) |->
        [name |-> schema[i].name, type |-> into_pg_type(schema[i].ty), format |-> "Text"]]

I16(n) == [int |-> 16, n |-> n]
I32(n) == [int |-> 32, n |-> n]
Bytes(text) == [int |-> 0, n |-> text]

\* Option<String> of a value: None for NULL.
RowValue(v) == IF v.null THEN None ELSE Some(value_to_string(v))

RECURSIVE serialize_values(_)
serialize_values(row_values) ==
    IF row_values = <<>> THEN <<>>
    ELSE (IF Head(row_values) = None THEN << I32(-1) >>
          ELSE << I32(Len(Head(row_values)[1])), Bytes(Head(row_values)[1]) >>)
         \o serialize_values(Tail(row_values))

serialize_row(row_values) == << I16(Len(row_values)) >> \o serialize_values(row_values)

DataRow(data, field_count) == [data |-> data, field_count |-> field_count]

\* A variant that advertises the format the client asked for.
encode_dataframe_requested_format(df, format) ==
    [fields |-> [i \in 1..Len(df.schema) |->
                    [name |-> df.schema[i].name, type |-> into_pg_type(df.schema[i].ty),
                     format |-> IF format = "UnifiedBinary" THEN "Binary" ELSE "Text"]],
     rows |-> [r \in 1..Len(df.rows) |->
                  DataRow(serialize_row([c \in 1..Len(df.rows[r]) |-> RowValue(df.rows[r][c])]),
                          Len(df.rows[r]))]]

encode_dataframe(df, format) ==
    [fields |-> pgwire_schema_from_arrow(df.schema),
     rows |-> [r \in 1..Len(df.rows) |->
                  DataRow(serialize_row([c \in 1..Len(df.rows[r]) |-> RowValue(df.rows[r][c])]),
                          Len(df.rows[r]))]]

command_complete_response(msg) ==
    [fields |-> << [name |-> "CommandComplete", type |-> "TEXT", format |-> "Text"] >>,
     rows |-> << DataRow(<< I16(1), I32(Len(msg)), Bytes(msg) >>, 1) >>]

\* The handler returned Err(PgWireError::ApiError(..)): no response is built.
NoResponse == Err("ApiError")

\* A portal: its statement's plan has placeholders $1..$n, and the client
\* bound a value to each.
Portals ==
    { [statement |-> st, placeholders |-> b[1], bound |-> b[2]] :
          st \in {"select", "insert"},
          b \in { <<0, <<>> >>, <<1, << <<"7">> >> >>,
                  <<2, << <<"7">>, <<"u", "p">> >> >> } }

\* ParamValues::List(vec![]), whatever the portal holds
deserialize_parameters(portal) == <<>>

\* LogicalPlan::replace_params_with_values: the plan with $i replaced by
\* the i-th value, or None when a placeholder has no value.
replace_params_with_values(placeholders, param_values) ==
    IF placeholders > Len(param_values) THEN None
    ELSE Some([i \in 1..placeholders |-> param_values[i]])

\* ----------------------------------------------------- the row shape
\* A row shape is the ordered field list of the record struct: each field
\* has a name and a Rust type.  The struct as it is declared.
OtelLogsAndSpans ==
    <<
       [name |-> "observed_timestamp", rust |-> "Option<DateTime>"],
       [name |-> "id", rust |-> "String"],
       [name |-> "parent_id", rust |-> "Option<String>"],
       [name |-> "name", rust |-> "Option<String>"],
       [name |-> "kind", rust |-> "Option<String>"],
       [name |-> "status_code", rust |-> "Option<String>"],
       [name |-> "status_message", rust |-> "Option<String>"],
       [name |-> "level", rust |-> "Option<String>"],
       [name |-> "severity___severity_text", rust |-> "Option<String>"],
       [name |-> "severity___severity_number", rust |-> "Option<String>"],
       [name |-> "body", rust |-> "Option<String>"],
       [name |-> "duration", rust |-> "Option<u64>"],
       [name |-> "start_time", rust |-> "Option<DateTime>"],
       [name |-> "end_time", rust |-> "Option<DateTime>"],
       [name |-> "context___trace_id", rust |-> "Option<String>"],
       [name |-> "context___span_id", rust |-> "Option<String>"],
       [name |-> "context___trace_state", rust |-> "Option<String>"],
       [name |-> "context___trace_flags", rust |-> "Option<String>"],
       [name |-> "context___is_remote", rust |-> "Option<String>"],
       [name |-> "events", rust |-> "Option<String>"],
       [name |-> "links", rust |-> "Option<String>"],
       [name |-> "attributes___client___address", rust |-> "Option<String>"],
       [name |-> "attributes___client___port", rust |-> "Option<u32>"],
       [name |-> "attributes___server___address", rust |-> "Option<String>"],
       [name |-> "attributes___server___port", rust |-> "Option<u32>"],
       [name |-> "attributes___network___local__address", rust |-> "Option<String>"],
       [name |-> "attributes___network___local__port", rust |-> "Option<u32>"],
       [name |-> "attributes___network___peer___address", rust |-> "Option<String>"],
       [name |-> "attributes___network___peer__port", rust |-> "Option<u32>"],
       [name |-> "attributes___network___protocol___name", rust |-> "Option<String>"],
       [name |-> "attributes___network___protocol___version", rust |-> "Option<String>"],
       [name |-> "attributes___network___transport", rust |-> "Option<String>"],
       [name |-> "attributes___network___type", rust |-> "Option<String>"],
       [name |-> "attributes___code___number", rust |-> "Option<u32>"],
       [name |-> "attributes___code___file___path", rust |-> "Option<u32>"],
       [name |-> "attributes___code___function___name", rust |-> "Option<u32>"],
       [name |-> "attributes___code___line___number", rust |-> "Option<u32>"],
       [name |-> "attributes___code___stacktrace", rust |-> "Option<u32>"],
       [name |-> "attributes___log__record___original", rust |-> "Option<String>"],
       [name |-> "attributes___log__record___uid", rust |-> "Option<String>"],
       [name |-> "attributes___error___type", rust |-> "Option<String>"],
       [name |-> "attributes___exception___type", rust |-> "Option<String>"],
       [name |-> "attributes___exception___message", rust |-> "Option<String>"],
       [name |-> "attributes___exception___stacktrace", rust |-> "Option<String>"],
       [name |-> "attributes___url___fragment", rust |-> "Option<String>"],
       [name |-> "attributes___url___full", rust |-> "Option<String>"],
       [name |-> "attributes___url___path", rust |-> "Option<String>"],
       [name |-> "attributes___url___query", rust |-> "Option<String>"],
       [name |-> "attributes___url___scheme", rust |-> "Option<String>"],
       [name |-> "attributes___user_agent___original", rust |-> "Option<String>"],
       [name |-> "attributes___http___request___method", rust |-> "Option<String>"],
       [name |-> "attributes___http___request___method_original", rust |-> "Option<String>"],
       [name |-> "attributes___http___response___status_code", rust |-> "Option<String>"],
       [name |-> "attributes___http___request___resend_count", rust |-> "Option<String>"],
       [name |-> "attributes___http___request___body___size", rust |-> "Option<String>"],
       [name |-> "attributes___session___id", rust |-> "Option<String>"],
       [name |-> "attributes___session___previous___id", rust |-> "Option<String>"],
       [name |-> "attributes___db___system___name", rust |-> "Option<String>"],
       [name |-> "attributes___db___collection___name", rust |-> "Option<String>"],
       [name |-> "attributes___db___namespace", rust |-> "Option<String>"],
       [name |-> "attributes___db___operation___name", rust |-> "Option<String>"],
       [name |-> "attributes___db___response___status_code", rust |-> "Option<String>"],
       [name |-> "attributes___db___operation___batch___size", rust |-> "Option<u32>"],
       [name |-> "attributes___db___query___summary", rust |-> "Option<String>"],
       [name |-> "attributes___db___query___text", rust |-> "Option<String>"],
       [name |-> "attributes___user___id", rust |-> "Option<String>"],
       [name |-> "attributes___user___email", rust |-> "Option<String>"],
       [name |-> "attributes___user___full_name", rust |-> "Option<String>"],
       [name |-> "attributes___user___name", rust |-> "Option<String>"],
       [name |-> "attributes___user___hash", rust |-> "Option<String>"],
       [name |-> "resource___attributes___service___name", rust |-> "Option<String>"],
       [name |-> "resource___attributes___service___version", rust |-> "Option<String>"],
       [name |-> "resource___attributes___service___instance___id", rust |-> "Option<String>"],
       [name |-> "resource___attributes___service___namespace", rust |-> "Option<String>"],
       [name |-> "resource___attributes___telemetry___sdk___language", rust |-> "Option<String>"],
       [name |-> "resource___attributes___telemetry___sdk___name", rust |-> "Option<String>"],
       [name |-> "resource___attributes___telemetry___sdk___version", rust |-> "Option<String>"],
       [name |-> "resource___attributes___user_agent___original", rust |-> "Option<String>"],
       [name |-> "project_id", rust |-> "String"],
       [name |-> "timestamp", rust |-> "DateTime"] >>

ArrowField(name, data_type, nullable) ==
    [name |-> name, data_type |-> data_type, nullable |-> nullable]

\* A variant whose timestamp overwrite is nullable.
OverwritesNullableTimestamp ==
    { ArrowField("project_id", "Utf8", FALSE),
      ArrowField("timestamp", "Timestamp(Microsecond, None)", TRUE),
      ArrowField("id", "Utf8", FALSE),
      ArrowField("observed_timestamp", "Timestamp(Microsecond, None)", TRUE),
      ArrowField("start_time", "Timestamp(Microsecond, None)", TRUE),
      ArrowField("end_time", "Timestamp(Microsecond, None)", TRUE) }

\* TracingOptions::overwrite: the descriptor given for a field name
Overwrites ==
    { ArrowField("project_id", "Utf8", FALSE),
      ArrowField("timestamp", "Timestamp(Microsecond, None)", FALSE),
      ArrowField("id", "Utf8", FALSE),
      ArrowField("observed_timestamp", "Timestamp(Microsecond, None)", TRUE),
      ArrowField("start_time", "Timestamp(Microsecond, None)", TRUE),
      ArrowField("end_time", "Timestamp(Microsecond, None)", TRUE) }

\* What serde_arrow traces for a field that is not overwritten.
TracedField(f) ==
    CASE f.rust = "String" -> ArrowField(f.name, "LargeUtf8", FALSE)
      [] f.rust = "Option<String>" -> ArrowField(f.name, "LargeUtf8", TRUE)
      [] f.rust = "DateTime" -> ArrowField(f.name, "Int64", FALSE)
      [] f.rust = "Option<u32>" -> ArrowField(f.name, "UInt32", TRUE)
      [] f.rust = "Option<u64>" -> ArrowField(f.name, "UInt64", TRUE)
      [] OTHER -> ArrowField(f.name, "Int64", TRUE)

\* Vec::<FieldRef>::from_type::<OtelLogsAndSpans>(tracing_options)
from_type(shape) ==
    [i \in 1..Len(shape) |->
        IF \E o \in Overwrites : o.name = shape[i].name
        THEN CHOOSE o \in Overwrites : o.name = shape[i].name
        ELSE TracedField(shape[i])]

\* delta_kernel's StructField, and its type for an arrow data type
StructField(name, data_type, nullable) ==
    [name |-> name, data_type |-> data_type, nullable |-> nullable]

KernelType(data_type) ==
    CASE data_type = "Utf8" -> Some("string")
      [] data_type = "LargeUtf8" -> Some("string")
      [] data_type = "Int64" -> Some("long")
      [] data_type = "UInt64" -> Some("long")
      [] data_type = "UInt32" -> Some("integer")
      [] data_type = "Timestamp(Microsecond, None)" -> Some("timestamp_ntz")
      [] OTHER -> None

\* arc_field.as_ref().try_into(): None when the type has no delta type
try_into(field) ==
    IF KernelType(field.data_type) = None THEN None
    ELSE Some(StructField(field.name, KernelType(field.data_type)[1], field.nullable))

\* OtelLogsAndSpans::columns for a struct of the given shape
columns(shape) ==
    LET fields == from_type(shape)
        vec_refs == [i \in 1..Len(fields) |-> try_into(fields[i])]
    IN  IF \E i \in 1..Len(fields) : vec_refs[i] = None THEN Err("Generic")
        ELSE IF \/ Len(fields) < 2
                \/ fields[Len(fields) - 1].data_type /= "Utf8"
                \/ fields[Len(fields)].data_type /= "Timestamp(Microsecond, None)"
        THEN Err("Generic")
        ELSE OkValue([i \in 1..Len(fields) |-> vec_refs[i][1]])

partitions == << "project_id", "timestamp" >>

\* ------------------------------------------------------------ the catalog
\* Variants: no fallback to default; the default entry preferred.
resolve_table_no_fallback(configs, project_id) ==
    IF configs[project_id] /= NoEntry THEN Some(configs[project_id].table) ELSE None

resolve_table_default_first(configs, project_id) ==
    IF configs["default"] /= NoEntry THEN Some(configs["default"].table)
    ELSE IF configs[project_id] /= NoEntry THEN Some(configs[project_id].table)
    ELSE None

\* Database::resolve_table: the entry for id, else the default entry.
resolve_table(configs, project_id) ==
    IF configs[project_id] /= NoEntry THEN Some(configs[project_id].table)
    ELSE IF project_id /= "default" /\ configs["default"] /= NoEntry
         THEN Some(configs["default"].table)
    ELSE None

\* A variant that looks up another project's entry.
InsertProjectNotDefault(table) == "test_project"

\* The project whose entry insert_records_batch commits to (its _table
\* argument is not read).
InsertProject(table) == "default"

\* The schema of the routing table, its last two columns, and the schemas of
\* the input plans of an INSERT.
TableSchema ==
    << [name |-> "project_id", ty |-> "Utf8"], [name |-> "timestamp", ty |-> "Timestamp"] >>
InputSchemas ==
    { TableSchema,
      << [name |-> "project_id", ty |-> "Utf8"], [name |-> "timestamp", ty |-> "Int64"] >>,
      << [name |-> "project", ty |-> "Utf8"], [name |-> "timestamp", ty |-> "Timestamp"] >>,
      << [name |-> "project_id", ty |-> "Utf8"] >> }
InsertOps == { "Append", "Overwrite", "Replace" }

\* A variant that compares the names only.
logically_equivalent_names(a, b) ==
    /\ Len(a) = Len(b)
    /\ \A i \in 1..Len(a) : a[i].name = b[i].name

logically_equivalent_names_and_types(a, b) ==
    /\ Len(a) = Len(b)
    /\ \A i \in 1..Len(a) : a[i].name = b[i].name /\ a[i].ty = b[i].ty

\* A variant that plans a sink for every insert mode.
insert_into_any_mode(schema, insert_op) ==
    IF ~logically_equivalent_names_and_types(TableSchema, schema) THEN Err("SchemaMismatch")
    ELSE Ok

\* insert_into: the schema check, then the mode check, then the sink plan.
insert_into(schema, insert_op) ==
    IF ~logically_equivalent_names_and_types(TableSchema, schema) THEN Err("SchemaMismatch")
    ELSE IF insert_op /= "Append" THEN Err("NotImplemented")
    ELSE Ok

\* The items of the stream a sink pulls: batches, or an error.
Batch(b) == [ok |-> TRUE, batch |-> b]
StreamError == [ok |-> FALSE, batch |-> <<>>]
SinkStreams ==
    { <<>>,
      << Batch(<<>>) >>,
      << Batch(<<TestSpan2>>) >>,
      << Batch(<<SqlRecord, TestSpan2>>), Batch(<<TestSpan2>>) >>,
      << Batch(<<TestSpan2>>), StreamError >> }

\* A variant that takes an error item for the end of the stream.
next_transpose_error_ends(stream) ==
    IF stream = <<>> \/ ~Head(stream).ok THEN "end" ELSE "batch"

\* data.next().await.transpose()?: a batch, the end, or the error returned
next_transpose(stream) ==
    IF stream = <<>> THEN "end" ELSE IF Head(stream).ok THEN "batch" ELSE "error"

\* The table name write_all hands to insert_records_batch.
SinkTable == ""

\* A variant that counts the batches.
SinkCountBatches(row_count, batch) == row_count + 1

\* row_count += batch.num_rows()
SinkCount(row_count, batch) == row_count + Len(batch)

\* What the caller of insert_records_batch returns: write_all wraps the error
\* and returns its row count.
InsertResult(o, res) ==
    IF o.kind /= "sink" THEN res
    ELSE IF res.ok THEN OkValue(o.row_count)
    ELSE Err("Execution")

\* register_project: the credential bag.
StorageOptions(cr) ==
    (IF cr.ak \notin {"none", ""} THEN {"AWS_ACCESS_KEY_ID"} ELSE {})
    \cup (IF cr.sk \notin {"none", ""} THEN {"AWS_SECRET_ACCESS_KEY"} ELSE {})
    \cup (IF cr.ep \notin {"none", ""} THEN {"AWS_ENDPOINT"} ELSE {})
    \cup {"AWS_ALLOW_HTTP"}

\* A variant in which inserting a key that is present removes it.
CatalogInsertAbsentOnly(configs, project_id, entry) ==
    IF configs[project_id] = NoEntry THEN [configs EXCEPT ![project_id] = entry]
    ELSE [configs EXCEPT ![project_id] = NoEntry]

\* configs.insert(project_id, (conn_str, storage_options, handle))
CatalogInsert(configs, project_id, entry) == [configs EXCEPT ![project_id] = entry]

\* -------------------------------------------------- the table format
\* A variant that replaces the table's rows.
CommitLogOverwrite(log, rows) == rows

\* DeltaOps::write: the log after the commit of `rows`.
CommitLog(log, rows) == log \o rows

\* A variant: the handle advances by one row past the snapshot.
PostCommitVerOneRow(snap, newLen) == IF newLen > snap THEN snap + 1 ELSE newLen

\* The version of the handle returned by a successful commit: the table
\* state after the commit.
PostCommitVer(snap, newLen) == newLen

\* The version of the handle after a failed commit: `*table` is not assigned.
FailedCommitVer(ver, snap) == ver

\* DeltaTableBuilder::load / open_table: a snapshot of the table at uri.
\* A variant that opens the table at its first version.
LoadTableFirstVersion(st, uri) == [uri |-> uri, ver |-> 0]

LoadTable(st, uri) == [uri |-> uri, ver |-> Len(st[uri].log)]

\* ------------------------------------------------------------- the state
VARIABLES
    dbState,    \* "init", "constructing", "ready" or "failed" (Database::new);
                \* "cancelled" once the shutdown token is cancelled, "exited"
                \* once main has returned
    store,      \* the object store: uri -> [exists, log]
    handles,    \* every Arc<RwLock<DeltaTable>> created: [uri, ver, lock]
    catalog,    \* project_configs: project id -> entry (NoEntry when absent)
    catLock,    \* the RwLock around project_configs
    pc,         \* where each task stands
    op,         \* the call each task is running, with its locals
    last,       \* the call completed last, with its result
    ncalls      \* calls started so far

vars == <<dbState, store, handles, catalog, catLock, pc, op, last, ncalls>>

NoOp == [kind |-> "none"]
Absent == [exists |-> FALSE, log |-> <<>>]
OldRow ==
    Row(0, [Default EXCEPT !.pid = "default", !.id = "span0",
                           !.timestamp = "2023-01-01T10:00:00Z", !.level = "INFO"])
OldProjectRow ==
    Row(0, [Default EXCEPT !.pid = "test_project", !.id = "span9",
                           !.timestamp = "2023-01-01T10:10:00Z", !.level = "ERROR",
                           !.status_code = "ERROR"])

\* The tables found in the bucket at start-up: none (a first start), or the
\* default table of an earlier run of the server, holding one row.
InitStores ==
    { [u \in Uris |-> Absent],
      [u \in Uris |-> IF u = DefaultUri THEN [exists |-> TRUE, log |-> <<OldRow>>]
                      ELSE Absent] }

Init ==
    /\ dbState = "init"
    /\ store \in InitStores
    /\ handles = <<>>
    /\ catalog = [p \in ProjectIds |-> NoEntry]
    /\ catLock = FreeLock
    /\ pc = [t \in Tasks |-> "idle"]
    /\ op = [t \in Tasks |-> NoOp]
    /\ last = NoOp
    /\ ncalls = 0

Registered(configs) == {p \in ProjectIds : configs[p] /= NoEntry}
Visible(st, hs, h) == Prefix(st[hs[h].uri].log, hs[h].ver)

\* The rows a scan with `filters` would deliver in the given state.
ScanView(configs, hs, st, filters) ==
    LET r == resolve_table(configs, ScanProject(filters, DefaultProject))
    IN  IF r = None THEN <<>> ELSE FilterRows(Visible(st, hs, r[1]), filters)

PidEq(p) == Bin(Col("project_id"), "Eq", Lit("Utf8", p))

Return(t, res) ==
    /\ pc' = [pc EXCEPT ![t] = "idle"]
    /\ op' = [op EXCEPT ![t] = NoOp]
    /\ last' = [op[t] EXCEPT !.res = res]

Goto(t, label, rec) ==
    /\ pc' = [pc EXCEPT ![t] = label]
    /\ op' = [op EXCEPT ![t] = rec]
    /\ UNCHANGED last

\* A call can start on an idle task.  The tasks are interchangeable: when
\* both are idle the next call is taken by t1.
CanStart(t) ==
    /\ dbState \in {"ready", "cancelled"} /\ pc[t] = "idle" /\ ncalls < MaxCalls
    /\ t = "t1" \/ pc["t1"] /= "idle"

\* ------------------------------------------------------- Database::new
\* A variant: the error of register_project is dropped.
CtorStateIgnoringError(o, res) == IF o.ctor THEN "ready" ELSE dbState

\* The state Database::new leaves: it returns register_project's error.
CtorState(o, res) ==
    IF o.ctor THEN (IF res.ok THEN "ready" ELSE "failed") ELSE dbState

NewInvalidEndpoint ==
    /\ dbState = "init"
    /\ dbState' = "failed"
    /\ UNCHANGED <<store, handles, catalog, catLock, pc, op, last, ncalls>>

NewStart ==
    /\ dbState = "init"
    /\ dbState' = "constructing"
    /\ Goto("t1", "reg_load",
            [kind |-> "register", id |-> 0, project |-> DefaultProject,
             uri |-> DefaultUri, cr |-> ConfigCreds, ctor |-> TRUE,
             table |-> NoEntry, loaded |-> "none", create |-> FALSE, fault |-> FALSE,
             again |-> FALSE, keys |-> {}, tables |-> {DefaultUri}, rows |-> <<>>,
             res |-> Ok])
    /\ UNCHANGED <<store, handles, catalog, catLock, ncalls>>

\* --------------------------------------------------- register_project
\* The call record also notes, for the properties, what held when the call
\* was made: whether the call returned last was a successful registration
\* with the same arguments (again), the catalog's keys, the existing tables
\* and the rows the project's handle showed; and whether the store failed
\* during the call (fault): a load error other than table-not-present, or a
\* failed create of a table that does not exist.
RegStart(t, p, u, cr) ==
    /\ CanStart(t)
    /\ ncalls' = ncalls + 1
    /\ Goto(t, "reg_load",
            [kind |-> "register", id |-> ncalls + 1, project |-> p, uri |-> u,
             cr |-> cr, ctor |-> FALSE, table |-> NoEntry,
             loaded |-> "none", create |-> FALSE, fault |-> FALSE,
             again |-> /\ last.kind = "register" /\ last.res.ok
                       /\ last.project = p /\ last.uri = u /\ last.cr = cr,
             keys |-> Registered(catalog),
             tables |-> {x \in Uris : store[x].exists},
             rows |-> IF catalog[p] = NoEntry THEN <<>>
                      ELSE Visible(store, handles, catalog[p].table),
             res |-> Ok])
    /\ UNCHANGED <<dbState, store, handles, catalog, catLock>>

\* The outcomes of load(): the table, or an error, which is the
\* table-not-present error or any other (credentials, I/O, corrupt log).
LoadOutcomes(st, u) ==
    IF st[u].exists THEN {"ok", "io_error"} ELSE {"not_found", "io_error"}

\* DeltaTableBuilder::from_uri(conn_str)...load().await
RegLoad(t) ==
    /\ pc[t] = "reg_load"
    /\ \E out \in LoadOutcomes(store, op[t].uri) :
        IF out = "ok"
        THEN /\ Goto(t, "reg_install", [op[t] EXCEPT !.loaded = out,
                                                      !.table = LoadTable(store, op[t].uri)])
             /\ catLock' = Request(catLock, t, "w")
        ELSE /\ Goto(t, "reg_create", [op[t] EXCEPT !.loaded = out, !.create = TRUE,
                                                     !.fault = (out = "io_error")])
             /\ UNCHANGED catLock
    /\ UNCHANGED <<dbState, store, handles, catalog, ncalls>>

\* Any load error leads here: delta_ops.create()...await
RegCreate(t) ==
    /\ pc[t] = "reg_create"
    /\ \/ /\ ~store[op[t].uri].exists
          /\ store' = [store EXCEPT ![op[t].uri] = [exists |-> TRUE, log |-> <<>>]]
          /\ Goto(t, "reg_install", [op[t] EXCEPT !.table = [uri |-> op[t].uri, ver |-> 0]])
          /\ catLock' = Request(catLock, t, "w")
          /\ UNCHANGED dbState
       \/ /\ pc' = [pc EXCEPT ![t] = "idle"]
          /\ op' = [op EXCEPT ![t] = NoOp]
          /\ last' = [op[t] EXCEPT !.res = Err("Database"),
                                   !.fault = @ \/ ~store[op[t].uri].exists]
          /\ dbState' = CtorState(op[t], Err("Database"))
          /\ UNCHANGED <<store, catLock>>
    /\ UNCHANGED <<handles, catalog, ncalls>>

RegInstall(t) ==
    /\ pc[t] = "reg_install"
    /\ Holds(catLock, t, "w")
    /\ handles' = Append(handles, [uri |-> op[t].table.uri, ver |-> op[t].table.ver,
                                   lock |-> FreeLock])
    /\ catalog' = CatalogInsert(catalog, op[t].project,
                                [conn |-> op[t].uri, opts |-> StorageOptions(op[t].cr),
                                 table |-> Len(handles) + 1])
    /\ catLock' = Release(catLock, t)
    /\ Return(t, Ok)
    /\ dbState' = CtorState(op[t], Ok)
    /\ UNCHANGED <<store, ncalls>>

\* ------------------------------------------------ insert_records_batch
\* The call record also notes, for the properties, what held when the call
\* was made: whether `table` was registered (reg) and how many rows a scan
\* with project_id = table delivered (before).
InsertStart(t, table, B) ==
    /\ CanStart(t)
    /\ ncalls' = ncalls + 1
    /\ Goto(t, "ins_resolve",
            [kind |-> "insert", id |-> ncalls + 1, table |-> table, batch |-> B,
             reg |-> table \in Registered(catalog),
             before |-> Len(ScanView(catalog, handles, store, <<PidEq(table)>>)),
             table_ref |-> 0, snap |-> 0, res |-> Ok])
    /\ catLock' = Request(catLock, t, "r")
    /\ UNCHANGED <<dbState, store, handles, catalog>>

InsertResolve(t) ==
    /\ pc[t] = "ins_resolve"
    /\ Holds(catLock, t, "r")
    /\ catLock' = Release(catLock, t)
    /\ LET e == catalog[InsertProject(op[t].table)]
       IN  IF e = NoEntry
           THEN /\ Return(t, InsertResult(op[t], Err("Generic")))
                /\ UNCHANGED handles
           ELSE /\ Goto(t, "ins_lock", [op[t] EXCEPT !.table_ref = e.table])
                /\ handles' = [handles EXCEPT ![e.table].lock = Request(@, t, "w")]
    /\ UNCHANGED <<dbState, store, catalog, ncalls>>

\* let ops = DeltaOps(table.clone())
InsertSnapshot(t) ==
    /\ pc[t] = "ins_lock"
    /\ Holds(handles[op[t].table_ref].lock, t, "w")
    /\ Goto(t, "ins_commit", [op[t] EXCEPT !.snap = handles[op[t].table_ref].ver])
    /\ UNCHANGED <<dbState, store, handles, catalog, catLock, ncalls>>

\* *table = write_op.await.map_err(TimeFusionError::Database)?
InsertCommit(t) ==
    /\ pc[t] = "ins_commit"
    /\ LET h == op[t].table_ref
           u == handles[h].uri
           log == CommitLog(store[u].log, RowsOf(op[t].id, op[t].batch))
       IN  \/ /\ store' = [store EXCEPT ![u].log = log]
              /\ handles' = [handles EXCEPT
                                ![h].ver = PostCommitVer(op[t].snap, Len(log)),
                                ![h].lock = Release(@, t)]
              /\ Return(t, InsertResult(op[t], Ok))
           \/ /\ handles' = [handles EXCEPT
                                ![h].ver = FailedCommitVer(@, op[t].snap),
                                ![h].lock = Release(@, t)]
              /\ Return(t, InsertResult(op[t], Err("Database")))
              /\ UNCHANGED store
    /\ UNCHANGED <<dbState, catalog, catLock, ncalls>>

\* ------------------------------------------- ProjectRoutingTable::scan
\* A query on the routing table: the planner asks supports_filters_pushdown
\* about the filters F, then calls scan with the projection P, F and the
\* limit L.
ScanStart(t, F, P, L) ==
    /\ CanStart(t)
    /\ ncalls' = ncalls + 1
    /\ Goto(t, "scan_resolve",
            [kind |-> "scan", id |-> ncalls + 1, filters |-> F,
             projection |-> P, limit |-> L,
             pushdown |-> supports_filters_pushdown(F),
             extracted |-> extract_project_id_from_filters(F),
             project_id |-> ScanProject(F, DefaultProject),
             bound |-> 0, passed |-> None, rows |-> <<>>, res |-> Ok])
    /\ catLock' = Request(catLock, t, "r")
    /\ UNCHANGED <<dbState, store, handles, catalog>>

ScanResolve(t) ==
    /\ pc[t] = "scan_resolve"
    /\ Holds(catLock, t, "r")
    /\ catLock' = Release(catLock, t)
    /\ LET r == resolve_table(catalog, op[t].project_id)
       IN  IF r = None
           THEN /\ Return(t, Err("UnknownProject"))
                /\ UNCHANGED handles
           ELSE /\ Goto(t, "scan_read", [op[t] EXCEPT !.bound = r[1]])
                /\ handles' = [handles EXCEPT ![r[1]].lock = Request(@, t, "r")]
    /\ UNCHANGED <<dbState, store, catalog, ncalls>>

\* table.scan(state, projection, filters, limit).await under the read lock
ScanRead(t) ==
    /\ pc[t] = "scan_read"
    /\ Holds(handles[op[t].bound].lock, t, "r")
    /\ handles' = [handles EXCEPT ![op[t].bound].lock = Release(@, t)]
    /\ pc' = [pc EXCEPT ![t] = "idle"]
    /\ op' = [op EXCEPT ![t] = NoOp]
    /\ LET args == TableScanArgs(op[t].projection, op[t].filters, op[t].limit)
       IN  \/ \E produced \in TableScanRows(Visible(store, handles, op[t].bound),
                                            args.filters) :
                  last' = [op[t] EXCEPT
                             !.passed = Some(args),
                             !.rows = EngineRows(produced, op[t].filters,
                                                 op[t].pushdown, op[t].limit)]
           \/ last' = [op[t] EXCEPT !.passed = Some(args), !.res = Err("External")]
    /\ UNCHANGED <<dbState, store, catalog, catLock, ncalls>>

\* ------------------------------------------------ flush_pending_writes
\* The call record also notes, for the properties, the length of every log
\* when the call was made (committed).
FlushStart(t) ==
    /\ CanStart(t)
    /\ ncalls' = ncalls + 1
    /\ Goto(t, "fl_iter", [kind |-> "flush", id |-> ncalls + 1, seen |-> {},
                           cur |-> 0,
                           committed |-> [u \in Uris |-> Len(store[u].log)],
                           res |-> Ok])
    /\ catLock' = Request(catLock, t, "r")
    /\ UNCHANGED <<dbState, store, handles, catalog>>

\* for (project_id, (_, _, table)) in configs.iter(): table.write().await
FlushNext(t) ==
    /\ pc[t] = "fl_iter"
    /\ Holds(catLock, t, "r")
    /\ LET rest == Registered(catalog) \ op[t].seen
       IN  IF rest = {}
           THEN /\ Return(t, Ok)
                /\ catLock' = Release(catLock, t)
                /\ UNCHANGED handles
           ELSE \E p \in rest :
                /\ Goto(t, "fl_lock", [op[t] EXCEPT !.seen = @ \cup {p},
                                                    !.cur = catalog[p].table])
                /\ handles' = [handles EXCEPT ![catalog[p].table].lock = Request(@, t, "w")]
                /\ UNCHANGED catLock
    /\ UNCHANGED <<dbState, store, catalog, ncalls>>

\* A variant in which a failed open leaves an unloaded table in the handle.
FailedOpenUnloaded(handle) == [handle EXCEPT !.ver = 0]

\* open_table(..).await.map_err(..)? returns before the assignment to *table
FailedOpen(handle) == handle

\* *table = deltalake::open_table(&table.table_uri()).await?
FlushOpen(t) ==
    /\ pc[t] = "fl_lock"
    /\ Holds(handles[op[t].cur].lock, t, "w")
    /\ LET h == op[t].cur
       IN  \/ /\ handles' = [handles EXCEPT
                                ![h].ver = LoadTable(store, handles[h].uri).ver,
                                ![h].lock = Release(@, t)]
              /\ Goto(t, "fl_iter", op[t])
              /\ UNCHANGED catLock
           \/ /\ handles' = [handles EXCEPT
                                ![h] = [FailedOpen(@) EXCEPT !.lock = Release(@, t)]]
              /\ catLock' = Release(catLock, t)
              /\ Return(t, Err("Database"))
    /\ UNCHANGED <<dbState, store, catalog, ncalls>>

\* ------------------------------------------------- another process
\* A commit to a table by a process other than this server: the log grows,
\* no handle of this server changes.
ExternalRow ==
    Row(-1, [Default EXCEPT !.pid = "default", !.id = "span0",
                            !.timestamp = "2023-01-01T10:05:00Z"])

ExternalCommit ==
    /\ dbState = "ready" /\ ncalls < MaxCalls
    /\ ncalls' = ncalls + 1
    /\ \E u \in Uris :
          /\ store[u].exists
          /\ store' = [store EXCEPT ![u].log = CommitLog(@, <<ExternalRow>>)]
    /\ UNCHANGED <<dbState, handles, catalog, catLock, pc, op, last>>

\* ------------------------------- ProjectRoutingTable as insertion sink
\* insert_into on an input plan with the given schema.  A rejected call
\* returns at once; an accepted one builds the sink plan, whose execution
\* calls write_all on the stream of the input plan.
InsertInto(t, schema, insert_op) ==
    /\ CanStart(t)
    /\ ncalls' = ncalls + 1
    /\ LET rec == [kind |-> "sink", id |-> ncalls + 1, schema |-> schema,
                   insert_op |-> insert_op, plan |-> FALSE,
                   input |-> <<>>, stream |-> <<>>, new_batches |-> <<>>,
                   row_count |-> 0, table |-> SinkTable, batch |-> <<>>,
                   reg |-> FALSE, before |-> 0, table_ref |-> 0, snap |-> 0,
                   res |-> Ok]
       IN  IF insert_into(schema, insert_op).ok
           THEN \E S \in SinkStreams :
                    Goto(t, "sink_pull",
                         [rec EXCEPT !.plan = TRUE, !.input = S, !.stream = S])
           ELSE /\ last' = [rec EXCEPT !.res = insert_into(schema, insert_op)]
                /\ UNCHANGED <<pc, op>>
    /\ UNCHANGED <<dbState, store, handles, catalog, catLock>>

\* while let Some(batch) = data.next().await.transpose()? { ... }, then
\* insert_records_batch("", new_batches)
SinkPull(t) ==
    /\ pc[t] = "sink_pull"
    /\ IF next_transpose(op[t].stream) = "end"
       THEN /\ Goto(t, "ins_resolve", [op[t] EXCEPT !.batch = op[t].new_batches])
            /\ catLock' = Request(catLock, t, "r")
       ELSE /\ IF next_transpose(op[t].stream) = "batch"
               THEN Goto(t, "sink_pull",
                         [op[t] EXCEPT
                            !.stream = Tail(@),
                            !.row_count = SinkCount(@, Head(op[t].stream).batch),
                            !.new_batches = Append(@, Head(op[t].stream).batch)])
               ELSE Return(t, Err("Stream"))
            /\ UNCHANGED catLock
    /\ UNCHANGED <<dbState, store, handles, catalog, ncalls>>

\* ------------------------------------------- a PostgreSQL connection
\* The queries a client sends: optional leading whitespace, a first word in
\* some case, and what follows it.
QueryWords ==
    { <<"I", "N", "S", "E", "R", "T">>, <<"i", "n", "s", "e", "r", "t">>,
      <<"U", "p", "d", "a", "t", "e">>, <<"d", "e", "l", "e", "t", "e">>,
      <<"S", "E", "L", "E", "C", "T">>, <<"w", "i", "t", "h">> }
QueryLeads == { <<>>, <<" ">>, <<"\r", "\n">>, <<"U+00A0">>, <<"_">> }
QueryTails == { <<>>, <<" ", "t">>, <<"s">>, <<"(">> }
WireQueries ==
    { ws \o w : ws \in QueryLeads, w \in QueryWords }
    \cup { w \o tl : w \in QueryWords, tl \in QueryTails }

\* What a direct verb reports, and the engine's outcomes for a statement.
VerbMessage == <<"o", "k">>

\* The connection ends: its task finishes with the handler's result.
ConnEnd(t, res) == Goto(t, "conn_closed", [op[t] EXCEPT !.res = res])

\* A client connects and its first message arrives.
ConnAccept(t, msg, users, fallback) ==
    /\ CanStart(t)
    /\ Goto(t, "conn_startup",
            [kind |-> "conn", id |-> ncalls + 1, msg |-> msg, users |-> users,
             fallback |-> fallback, sent |-> <<>>, query |-> None, route |-> "none",
             format |-> "none", portal |-> None, executed |-> None, mark |-> 0,
             result |-> None, response |-> NoResponse, res |-> Ok])
    /\ ncalls' = ncalls + 1
    /\ UNCHANGED <<dbState, store, handles, catalog, catLock>>

\* on_startup decides; a refused connection is closed with the error.
ConnStartup(t) ==
    /\ pc[t] = "conn_startup"
    /\ LET d == on_startup(op[t].msg, op[t].users, op[t].fallback)
       IN  IF d = "ok" THEN Goto(t, "conn_send", op[t]) ELSE ConnEnd(t, Err(d))
    /\ UNCHANGED <<dbState, store, handles, catalog, catLock, ncalls>>

\* client.send(...).await?: the next reply goes out, or the socket fails.
ConnSend(t) ==
    /\ pc[t] = "conn_send"
    /\ \/ LET sent == Append(op[t].sent, StartupReplies[Len(op[t].sent) + 1])
          IN  Goto(t, IF Len(sent) = Len(StartupReplies) THEN "conn_ready" ELSE "conn_send",
                   [op[t] EXCEPT !.sent = sent])
       \/ ConnEnd(t, Err("IoError"))
    /\ UNCHANGED <<dbState, store, handles, catalog, catLock, ncalls>>

\* The handler has a query: `mark` is the number of calls started so far.
Received(rec, q, route, format) ==
    [rec EXCEPT !.query = Some(q), !.route = route, !.format = format,
                !.result = None, !.response = NoResponse, !.mark = ncalls,
                !.portal = IF route = "portal" THEN @ ELSE None,
                !.executed = IF route = "portal" THEN @ ELSE None]

\* The handler's reply: `result` is the DataFrame the engine produced, if
\* any; a handler that failed has no response.
Replied(rec, result, response) ==
    [rec EXCEPT !.result = result, !.response = response,
                !.sent = rec.sent \o << IF response = NoResponse THEN "ErrorResponse"
                                        ELSE "Response",
                                        "ReadyForQuery(Idle)" >>]

\* SimpleQueryHandler::do_query: the query is routed by its first word.
ConnSimpleQuery(t, q) ==
    /\ pc[t] = "conn_ready" /\ ncalls < MaxCalls
    /\ Goto(t, "conn_handler", Received(op[t], q, do_query_route(q), "UnifiedText"))
    /\ UNCHANGED <<dbState, store, handles, catalog, catLock, ncalls>>

\* ExtendedQueryHandler::do_query on a portal with its result format:
\* `executed` is the plan handed to the engine, as its placeholders' values.
ConnExtendedQuery(t, format, portal) ==
    /\ pc[t] = "conn_ready" /\ ncalls < MaxCalls
    /\ LET plan_with_values ==
               replace_params_with_values(portal.placeholders, deserialize_parameters(portal))
           rec == Received([op[t] EXCEPT !.portal = Some(portal),
                                         !.executed = plan_with_values],
                           <<>>, "portal", format)
       IN  IF plan_with_values = None
           THEN /\ Goto(t, "conn_ready", Replied(rec, None, NoResponse))
                /\ ncalls' = ncalls + 1
           ELSE /\ Goto(t, "conn_handler", rec)
                /\ UNCHANGED ncalls
    /\ UNCHANGED <<dbState, store, handles, catalog, catLock>>

\* What the handler awaits runs as the call of t2: the database verb, or the
\* engine executing the statement against the routing table.
HandlerCall == "t2"
Called(t) ==
    pc[HandlerCall] /= "idle" \/ (last.kind /= "none" /\ last.id > op[t].mark)
CallReturned(t) ==
    pc[HandlerCall] = "idle" /\ last.kind /= "none" /\ last.id > op[t].mark

\* The filter lists of the statements a client sends.
WireFilterLists == { <<>>, <<PidEq("test_project")>> }

\* The handler reaches its await.  insert_record writes the record of the
\* query; session_context.sql(..) / execute_logical_plan(..) and collect()
\* run a SELECT as a scan of the routing table and an INSERT plan through
\* insert_into and write_all.
ConnCall(t) ==
    /\ pc[t] = "conn_handler" /\ ~Called(t)
    /\ CASE op[t].route = "insert_record" ->
                \E B \in FairBatchLists : InsertStart(HandlerCall, DefaultProject, B)
         [] op[t].route = "sql" ->
                \E F \in WireFilterLists : ScanStart(HandlerCall, F, None, None)
         [] op[t].route = "portal" ->
                IF op[t].portal[1].statement = "insert"
                THEN \E sch \in InputSchemas : InsertInto(HandlerCall, sch, "Append")
                ELSE \E F \in WireFilterLists : ScanStart(HandlerCall, F, None, None)
         [] OTHER -> FALSE

\* The handler ends without a call to the tables of the model: the verb or
\* the engine fails at once, the statement reads no table, or the verb is
\* update_record or delete_record.
ConnDirect(t) ==
    /\ pc[t] = "conn_handler" /\ ~Called(t)
    /\ \/ Goto(t, "conn_ready", Replied(op[t], None, NoResponse))
       \/ /\ op[t].route \in {"update_record", "delete_record"}
          /\ Goto(t, "conn_ready",
                  Replied(op[t], None, command_complete_response(VerbMessage)))
       \/ /\ op[t].route \in {"sql", "portal"}
          /\ \E df \in DataFrames :
                 Goto(t, "conn_ready",
                      Replied(op[t], Some(df), encode_dataframe(df, op[t].format)))
    /\ ncalls' = ncalls + 1
    /\ UNCHANGED <<dbState, store, handles, catalog, catLock>>

\* The awaited call has returned: its error is the handler's, its result is
\* encoded.
ConnReply(t) ==
    /\ pc[t] = "conn_handler" /\ CallReturned(t)
    /\ IF ~last.res.ok
       THEN Goto(t, "conn_ready", Replied(op[t], None, NoResponse))
       ELSE IF op[t].route = "insert_record"
       THEN Goto(t, "conn_ready",
                 Replied(op[t], None, command_complete_response(VerbMessage)))
       ELSE \/ \E df \in DataFrames :
                  Goto(t, "conn_ready",
                       Replied(op[t], Some(df), encode_dataframe(df, op[t].format)))
            \/ Goto(t, "conn_ready", Replied(op[t], None, NoResponse))
    /\ UNCHANGED <<dbState, store, handles, catalog, catLock, ncalls>>

\* The client terminates.
ConnClose(t) ==
    /\ pc[t] = "conn_ready"
    /\ ConnEnd(t, Ok)
    /\ UNCHANGED <<dbState, store, handles, catalog, catLock, ncalls>>

\* ------------------------------------------------------- main: shutdown
\* Ctrl+C: shutdown_token.cancel()
ShutdownSignal ==
    /\ dbState = "ready"
    /\ dbState' = "cancelled"
    /\ UNCHANGED <<store, handles, catalog, catLock, pc, op, last, ncalls>>

\* A task that has ended, or was never spawned.
Ended(label) == label \in {"idle", "conn_closed", "loop_exited", "task_exited", "aborted"}

\* main returns when its select! completes: when the HTTP server's task
\* finishes, or after Ctrl+C, once it has cancelled the token, stopped the
\* HTTP server and slept one second.  It joins none of its tasks: the
\* runtime is dropped, and every task still running is dropped at the await
\* it stands at.
MainReturn ==
    /\ dbState \in {"ready", "cancelled"}
    /\ dbState' = "exited"
    /\ pc' = [t \in Tasks |-> IF Ended(pc[t]) THEN pc[t] ELSE "aborted"]
    /\ UNCHANGED <<store, handles, catalog, catLock, op, last, ncalls>>

\* --------------------------------------------- the PGWire accept loop
\* The accept loop runs on t1 and spawns a task for every connection.
AcceptLoop == "t1"

\* select!: the accept branch, with a connection pending: the connection's
\* task is spawned.  select! polls its branches in random order, so this
\* branch can be taken while the token is already cancelled.
ServeAccept(t) ==
    /\ pc[AcceptLoop] = "accept_loop"
    /\ CanStart(t)
    /\ Goto(t, "socket_open",
            [kind |-> "socket", id |-> ncalls + 1, messages |-> 0, res |-> Ok])
    /\ ncalls' = ncalls + 1
    /\ UNCHANGED <<dbState, store, handles, catalog, catLock>>

\* pgwire's process_socket with the handlers of datafusion_postgres: a
\* message of the client is served.
SocketMessage(t) ==
    /\ pc[t] = "socket_open" /\ op[t].messages < MaxCalls
    /\ Goto(t, "socket_open", [op[t] EXCEPT !.messages = @ + 1])
    /\ UNCHANGED <<dbState, store, handles, catalog, catLock, ncalls>>

\* process_socket returns: the client has left, or the socket failed.
SocketClose(t) ==
    /\ pc[t] = "socket_open"
    /\ \E res \in {Ok, Err("IoError")} : ConnEnd(t, res)
    /\ UNCHANGED <<dbState, store, handles, catalog, catLock, ncalls>>

\* select!: the cancelled branch breaks the loop.
ServeLoopExit ==
    /\ pc[AcceptLoop] = "accept_loop" /\ dbState = "cancelled"
    /\ Goto(AcceptLoop, "loop_exited", op[AcceptLoop])
    /\ UNCHANGED <<dbState, store, handles, catalog, catLock, ncalls>>

\* ------------------------------------------------ the queue flush task
\* The flush task runs on t1; the write it awaits runs as the call of t2.
FlushTask == "t1"
WriteCall == "t2"

\* What dequeue_all returns: the queued records, as the batch each is
\* written with.
QueueRecords == { <<>>, << <<SqlRecord>> >>, << <<SqlRecord>>, <<TestSpan2>> >> }

\* The write awaited by process_record has returned and was not yet noted.
WriteReturned ==
    pc[WriteCall] = "idle" /\ last.kind = "insert" /\ last.id /= op[FlushTask].noted

\* select!: the sleep branch.  dequeue_all fails or returns the records;
\* with none the loop goes round.
QueueTick(records) ==
    /\ pc[FlushTask] = "flush_select" /\ dbState \in {"ready", "cancelled"}
    /\ ncalls + Len(records) <= MaxCalls
    /\ records /= <<>>
    /\ Goto(FlushTask, "queue_round", [op[FlushTask] EXCEPT !.pending = records])
    /\ UNCHANGED <<dbState, store, handles, catalog, catLock, ncalls>>

\* process_record: db.write(&record).await starts
QueueWrite ==
    /\ pc[FlushTask] = "queue_round" /\ op[FlushTask].pending /= <<>>
    /\ ~WriteReturned
    /\ InsertStart(WriteCall, DefaultProject, << Head(op[FlushTask].pending) >>)

\* process_record: the write returned; its status is set and the loop
\* moves to the next record.
QueueNote ==
    /\ pc[FlushTask] = "queue_round" /\ WriteReturned
    /\ Goto(FlushTask, "queue_round",
            [op[FlushTask] EXCEPT !.pending = Tail(@), !.noted = last.id,
                                  !.status = Append(@, last.res.ok)])
    /\ UNCHANGED <<dbState, store, handles, catalog, catLock, ncalls>>

\* The for loop over the records is done: back to select!.
QueueRoundEnd ==
    /\ pc[FlushTask] = "queue_round" /\ op[FlushTask].pending = <<>>
    /\ Goto(FlushTask, "flush_select", op[FlushTask])
    /\ UNCHANGED <<dbState, store, handles, catalog, catLock, ncalls>>

\* select!: the cancelled branch breaks the loop.
QueueExit ==
    /\ pc[FlushTask] = "flush_select" /\ dbState = "cancelled"
    /\ Goto(FlushTask, "task_exited", op[FlushTask])
    /\ UNCHANGED <<dbState, store, handles, catalog, catLock, ncalls>>

\* ------------------------------------------------ the compaction task
\* The task main spawns for the periodic compaction runs on t3: its
\* interval ticks and db.compact_all_projects().await starts; the call
\* returns.  What the compaction does to the tables is not part of the model.
CompactionTask == "t3"

CompactionTick ==
    /\ pc[CompactionTask] = "compaction_wait"
    /\ Goto(CompactionTask, "compacting", op[CompactionTask])
    /\ UNCHANGED <<dbState, store, handles, catalog, catLock, ncalls>>

CompactionDone ==
    /\ pc[CompactionTask] = "compacting"
    /\ Goto(CompactionTask, "compaction_wait", op[CompactionTask])
    /\ UNCHANGED <<dbState, store, handles, catalog, catLock, ncalls>>

\* ----------------------------------------- OtelLogsAndSpans::columns
\* A task asks for the schema: columns() and partitions() reflect the
\* struct the server was built with.
ColumnsStart(t) ==
    /\ pc[t] = "idle" /\ ncalls < MaxCalls
    /\ Goto(t, "shape",
            [kind |-> "columns", id |-> ncalls + 1, shape |-> OtelLogsAndSpans,
             partitions |-> None, res |-> Ok])
    /\ ncalls' = ncalls + 1
    /\ UNCHANGED <<dbState, store, handles, catalog, catLock>>

\* The schema is computed.
ColumnsCall(t) ==
    /\ pc[t] = "shape"
    /\ Goto(t, "shape_done",
            [op[t] EXCEPT !.res = columns(op[t].shape), !.partitions = Some(partitions)])
    /\ UNCHANGED <<dbState, store, handles, catalog, catLock, ncalls>>

\* The result is handed to the caller.
ColumnsReturn(t) ==
    /\ pc[t] = "shape_done"
    /\ Return(t, op[t].res)
    /\ UNCHANGED <<dbState, store, handles, catalog, catLock, ncalls>>

\* ------------------------------------------------------ specifications
SpecFilterLists ==
    { <<>>, <<PidEq("test_project")>>, <<PidEq("missing")>> }

\* The steps of task t; its scans draw their filter lists from FL.
TaskNext(t, FL) ==
    \/ \E p \in Projects, cr \in Creds : RegStart(t, p, UriOf(p), cr)
    \/ RegLoad(t)
    \/ RegCreate(t)
    \/ RegInstall(t)
    \/ \E p \in Projects, B \in BatchLists : InsertStart(t, p, B)
    \/ InsertResolve(t)
    \/ InsertSnapshot(t)
    \/ InsertCommit(t)
    \/ \E F \in FL : ScanStart(t, F, None, None)
    \/ ScanResolve(t)
    \/ ScanRead(t)
    \/ FlushStart(t)
    \/ FlushNext(t)
    \/ FlushOpen(t)

\* The server: construction, then concurrent calls.
Next ==
    \/ NewInvalidEndpoint
    \/ NewStart
    \/ \E t \in Sessions : TaskNext(t, SpecFilterLists)

Spec == Init /\ [][Next]_vars

\* One caller: every call returns before the next one starts.
NextSeq ==
    \/ NewInvalidEndpoint
    \/ NewStart
    \/ TaskNext("t1", SpecFilterLists)

SpecSeq == Init /\ [][NextSeq]_vars

\* SQL INSERTs and registrations, from two sessions.
SinkTaskNext(t) ==
    \/ \E p \in Projects, cr \in Creds : RegStart(t, p, UriOf(p), cr)
    \/ RegLoad(t)
    \/ RegCreate(t)
    \/ RegInstall(t)
    \/ \E sch \in InputSchemas, m \in InsertOps : InsertInto(t, sch, m)
    \/ SinkPull(t)
    \/ InsertResolve(t)
    \/ InsertSnapshot(t)
    \/ InsertCommit(t)

NextSink ==
    \/ NewStart
    \/ \E t \in Sessions : SinkTaskNext(t)

SpecSink == Init /\ [][NextSink]_vars

\* Scans, inserts, flushes and registrations of two sessions while another
\* process commits to the tables.
FlushTaskNext(t) ==
    \/ ScanStart(t, <<>>, None, None)
    \/ ScanResolve(t)
    \/ ScanRead(t)
    \/ \E B \in FairBatchLists : InsertStart(t, DefaultProject, B)
    \/ InsertResolve(t)
    \/ InsertSnapshot(t)
    \/ InsertCommit(t)
    \/ \E p \in Projects, cr \in Creds : RegStart(t, p, UriOf(p), cr)
    \/ RegLoad(t)
    \/ RegCreate(t)
    \/ RegInstall(t)
    \/ FlushStart(t)
    \/ FlushNext(t)
    \/ FlushOpen(t)

NextFlush ==
    \/ NewStart
    \/ ExternalCommit
    \/ \E t \in Sessions : FlushTaskNext(t)

SpecFlush == Init /\ [][NextFlush]_vars

\* The routing functions on their own: one scan of a catalog drawn from
\* every map over the projects, with a filter list drawn from RouteFilterLists.
RouteAtoms ==
    { PidEq("test_project"),
      Bin(Lit("Utf8", "missing"), "Eq", Col("project_id")),
      Bin(Lit("Utf8", "default"), "Eq", Col("project_id")),
      Not(PidEq("default")),
      Not(Not(PidEq("test_project"))),
      Bin(PidEq("test_project"), "Or", PidEq("default")),
      Bin(Col("level"), "Eq", Lit("Utf8", "ERROR")),
      Bin(Col("id"), "Eq", Lit("Utf8", "span0")),
      Bin(Col("timestamp"), "Gt", Lit("Utf8", "2023-01-01T10:05:00Z")),
      Bin(Col("status_code"), "Eq", Lit("Utf8", "ERROR")),
      Bin(Col("duration"), "Gt", Lit("Int64", "150000000")),
      Bin(Col("project_id"), "NotEq", Lit("Utf8", "test_project")),
      Bin(Col("project_id"), "Eq", Lit("Utf8", "null")),
      Bin(Col("project_id"), "Eq", Lit("Int64", "7")),
      Bin(PidEq("test_project"), "And", Bin(Col("level"), "Eq", Lit("Utf8", "ERROR"))),
      IsNotNull(Col("project_id")) }
    \cup { NotN(Bin(Lit("Utf8", "missing"), "Eq", Col("project_id")), n) : n \in 1..MaxNots }

RouteFilterLists == UNION { [1..n -> RouteAtoms] : n \in 0..MaxFilters }

\* Option<&Vec<usize>> and Option<usize> of a scan.
RouteProjections == { None, Some(<<0>>) }
RouteLimits == { None, Some(0), Some(1) }

RouteHandles ==
    << [uri |-> "u0", ver |-> 2, lock |-> FreeLock],
       [uri |-> "u1", ver |-> 1, lock |-> FreeLock] >>

RouteStore ==
    [u \in Uris |-> IF u = "u0"
                    THEN [exists |-> TRUE, log |-> <<OldRow, OldProjectRow>>]
                    ELSE [exists |-> TRUE, log |-> <<OldProjectRow>>]]

RouteCatalogs ==
    { [p \in ProjectIds |->
          IF p \in reg
          THEN [conn |-> UriOf(p), opts |-> {"AWS_ALLOW_HTTP"},
                table |-> IF p = "default" THEN 1 ELSE 2]
          ELSE NoEntry] : reg \in SUBSET Projects }

InitRoute ==
    /\ dbState = "ready"
    /\ store = RouteStore
    /\ handles = RouteHandles
    /\ catalog \in RouteCatalogs
    /\ catLock = FreeLock
    /\ pc = [t \in Tasks |-> "idle"]
    /\ op = [t \in Tasks |-> NoOp]
    /\ last = NoOp
    /\ ncalls = 0

NextRoute ==
    \/ /\ ncalls = 0
       /\ \E F \in RouteFilterLists, P \in RouteProjections, L \in RouteLimits :
              ScanStart("t1", F, P, L)
    \/ ScanResolve("t1")
    \/ ScanRead("t1")

SpecRoute == InitRoute /\ [][NextRoute]_vars

\* Three tasks inserting into, scanning and flushing the default table: the
\* waiters of its handle's lock.
InitFair ==
    /\ dbState = "ready"
    /\ store = RouteStore
    /\ handles = RouteHandles
    /\ catalog \in { c \in RouteCatalogs : Registered(c) = {DefaultProject} }
    /\ catLock = FreeLock
    /\ pc = [t \in Tasks |-> "idle"]
    /\ op = [t \in Tasks |-> NoOp]
    /\ last = NoOp
    /\ ncalls = 0

\* The steps of a call that is under way.
FairStep(t) ==
    \/ InsertResolve(t)
    \/ InsertSnapshot(t)
    \/ InsertCommit(t)
    \/ ScanResolve(t)
    \/ ScanRead(t)
    \/ FlushNext(t)
    \/ FlushOpen(t)

FairStart(t) ==
    \/ \E B \in FairBatchLists : InsertStart(t, DefaultProject, B)
    \/ ScanStart(t, <<>>, None, None)
    \/ FlushStart(t)

\* The tasks are interchangeable: a call is started by the first idle one.
NextFair ==
    \E t \in Tasks :
        \/ (t = "t3" => pc["t2"] /= "idle") /\ FairStart(t)
        \/ FairStep(t)

\* The runtime polls every task that can run, and storage calls return.
SpecFair == InitFair /\ [][NextFair]_vars /\ \A t \in Tasks : WF_vars(FairStep(t))

\* A connection of the PostgreSQL front end of a running server: the
\* handlers keep no state between connections, and a connection's task
\* ends with it.
WireTasks == { "t1" }

\* The logins of the connections whose queries are followed: by password
\* with PGPASSWORD unset and set, by the fallback password, and a refusal.
WireLogins ==
    LET users == << [username |-> "admin", hashed_password |-> Hash("admin123")] >>
        Startup(user, password) ==
            [type |-> "Startup", user |-> Some(user), password |-> password]
    IN  { << Startup("admin", Some("admin123")), users, None >>,
          << Startup("admin", Some("admin123")), users, Some("wrong") >>,
          << Startup("admin", None), users, Some("admin123") >>,
          << Startup("ghost", Some("admin123")), users, None >> }

\* The steps of the call a handler awaits, and of the other process.
HandlerCallNext ==
    \/ ScanResolve(HandlerCall)
    \/ ScanRead(HandlerCall)
    \/ InsertResolve(HandlerCall)
    \/ InsertSnapshot(HandlerCall)
    \/ InsertCommit(HandlerCall)
    \/ ExternalCommit

\* One connection: its handshake, then its queries, while another process
\* commits to the tables.
NextWire ==
    \/ \E t \in WireTasks :
           \/ \E login \in WireLogins : ConnAccept(t, login[1], login[2], login[3])
           \/ ConnStartup(t)
           \/ ConnSend(t)
           \/ \E q \in WireQueries : ConnSimpleQuery(t, q)
           \/ \E format \in ResultFormats, portal \in Portals :
                  ConnExtendedQuery(t, format, portal)
           \/ ConnCall(t)
           \/ ConnDirect(t)
           \/ ConnReply(t)
           \/ ConnClose(t)
    \/ SinkPull(HandlerCall)
    \/ HandlerCallNext

SpecWire == InitFair /\ [][NextWire]_vars

\* One connection with every first message, user database and fallback
\* setting, then simple queries.
StartupQueries == { <<"S", "E", "L", "E", "C", "T">>, <<"i", "n", "s", "e", "r", "t">> }

NextStartup ==
    \/ \E t \in WireTasks :
           \/ \E msg \in StartupMessages, users \in UserDBs, fallback \in FallbackPasswords :
                  ConnAccept(t, msg, users, fallback)
           \/ ConnStartup(t)
           \/ ConnSend(t)
           \/ \E q \in StartupQueries : ConnSimpleQuery(t, q)
           \/ ConnCall(t)
           \/ ConnDirect(t)
           \/ ConnReply(t)
           \/ ConnClose(t)
    \/ HandlerCallNext

SpecStartup == InitFair /\ [][NextStartup]_vars

\* The server after start-up: the accept loop, its connections, shutdown.
InitServe ==
    /\ dbState = "ready"
    /\ store = RouteStore
    /\ handles = RouteHandles
    /\ catalog \in { c \in RouteCatalogs : Registered(c) = {DefaultProject} }
    /\ catLock = FreeLock
    /\ pc = [t \in Tasks |-> IF t = AcceptLoop THEN "accept_loop" ELSE "idle"]
    /\ op = [t \in Tasks |-> IF t = AcceptLoop THEN [kind |-> "server"] ELSE NoOp]
    /\ last = NoOp
    /\ ncalls = 0

ConnTasks == Tasks \ {AcceptLoop}

NextServe ==
    \/ ShutdownSignal
    \/ MainReturn
    \/ ServeLoopExit
    \/ \E t \in ConnTasks :
           \/ ServeAccept(t)
           \/ SocketMessage(t)
           \/ SocketClose(t)

\* The runtime polls the accept loop when its token is cancelled.
SpecServe == InitServe /\ [][NextServe]_vars /\ WF_vars(ServeLoopExit)

\* The server after start-up: the queue flush task, its writes, shutdown.
InitQueue ==
    /\ dbState = "ready"
    /\ store = RouteStore
    /\ handles = RouteHandles
    /\ catalog \in { c \in RouteCatalogs : Registered(c) = {DefaultProject} }
    /\ catLock = FreeLock
    /\ pc = [t \in Tasks |-> IF t = FlushTask THEN "flush_select"
                             ELSE IF t = CompactionTask THEN "compaction_wait"
                             ELSE "idle"]
    /\ op = [t \in Tasks |-> IF t = FlushTask
                             THEN [kind |-> "flush_task", pending |-> <<>>,
                                   noted |-> 0, status |-> <<>>]
                             ELSE IF t = CompactionTask THEN [kind |-> "compaction"]
                             ELSE NoOp]
    /\ last = NoOp
    /\ ncalls = 0

QueueStep ==
    \/ QueueWrite
    \/ QueueNote
    \/ QueueRoundEnd
    \/ QueueExit
    \/ InsertResolve(WriteCall)
    \/ InsertSnapshot(WriteCall)
    \/ InsertCommit(WriteCall)

NextQueue ==
    \/ ShutdownSignal
    \/ MainReturn
    \/ \E records \in QueueRecords : QueueTick(records)
    \/ QueueStep
    \/ CompactionTick
    \/ CompactionDone

\* The runtime polls the flush task whenever it can run, and writes return.
SpecQueue == InitQueue /\ [][NextQueue]_vars /\ WF_vars(QueueStep)

\* columns() and partitions() called by the tasks of the server, before
\* any table is registered.
InitShape ==
    /\ dbState = "init"
    /\ store \in InitStores
    /\ handles = <<>>
    /\ catalog = [p \in ProjectIds |-> NoEntry]
    /\ catLock = FreeLock
    /\ pc = [t \in Tasks |-> "idle"]
    /\ op = [t \in Tasks |-> NoOp]
    /\ last = NoOp
    /\ ncalls = 0

NextShape == \E t \in Tasks : ColumnsStart(t) \/ ColumnsCall(t) \/ ColumnsReturn(t)

SpecShape == InitShape /\ [][NextShape]_vars

\* Direct batch inserts and SQL INSERTs in any order, from two sessions.
AppendTaskNext(t) ==
    \/ \E B \in BatchLists : InsertStart(t, DefaultProject, B)
    \/ \E sch \in InputSchemas, m \in InsertOps : InsertInto(t, sch, m)
    \/ SinkPull(t)
    \/ InsertResolve(t)
    \/ InsertSnapshot(t)
    \/ InsertCommit(t)

\* Database::new registers the default project on t1.
NewSteps == NewStart \/ RegLoad("t1") \/ RegCreate("t1") \/ RegInstall("t1")

NextAppend ==
    \/ NewSteps
    \/ \E t \in Sessions : AppendTaskNext(t)

SpecAppend == Init /\ [][NextAppend]_vars

\* Scans, inserts, re-registrations and flushes from three tasks.
LockStep(t) ==
    \/ FairStep(t)
    \/ RegLoad(t)
    \/ RegCreate(t)
    \/ RegInstall(t)

LockStart(t) ==
    \/ FairStart(t)
    \/ \E cr \in Creds : RegStart(t, DefaultProject, DefaultUri, cr)

NextLocks ==
    \E t \in Tasks :
        \/ (t = "t3" => pc["t2"] /= "idle") /\ LockStart(t)
        \/ LockStep(t)

\* The runtime polls every task that can run; commits, opens, loads and
\* scans return.
SpecLocks == InitFair /\ [][NextLocks]_vars /\ \A t \in Tasks : WF_vars(LockStep(t))

\* ================================================================ claims
RowsCarry(B, p) == \A i \in 1..Len(Flatten(B)) : Flatten(B)[i].pid = p
CallRowsIn(rows, id) == SelectSeq(rows, LAMBDA r : r.call = id)
EntryOf(p) == catalog[p]

\* C1: after insert_batches(P, B) has returned successfully for a registered
\* project P (B's rows carrying project_id = P), a scan with the filter
\* project_id = P delivers at least |B| more rows than before the call.
C1_ScanSeesInsertedRows ==
    (last.kind = "insert" /\ last.res.ok /\ last.reg /\ RowsCarry(last.batch, last.table))
    => Len(ScanView(catalog, handles, store, <<PidEq(last.table)>>))
          >= last.before + Len(Flatten(last.batch))

\* C2: two insert_batches calls for the same project are never both between
\* snapshotting the table state and replacing the in-memory handle.
C2_OneWriterPerProject ==
    \A t, s \in Tasks :
        (t /= s /\ pc[t] = "ins_commit" /\ pc[s] = "ins_commit")
        => op[t].table /= op[s].table

\* C3: an insert for a registered project B never waits for the writer lock
\* that an insert for a different registered project A holds.
C3_DifferentProjectsInParallel ==
    \A t, s \in Tasks :
        (/\ t /= s
         /\ pc[t] \in {"ins_lock", "ins_commit"} /\ pc[s] = "ins_lock"
         /\ op[t].reg /\ op[s].reg /\ op[t].table /= op[s].table
         /\ Holds(handles[op[t].table_ref].lock, t, "w"))
        => Holds(handles[op[s].table_ref].lock, s, "w")

\* C4: a successful insert for a registered project puts all of its rows in
\* that project's table and changes no other project's table, so the tables
\* after two calls on distinct projects do not depend on their order.
C4_InsertChangesOnlyOwnTable ==
    (last.kind = "insert" /\ last.res.ok /\ last.reg)
    => \A u \in Uris :
          CallRowsIn(store[u].log, last.id) =
              (IF u = EntryOf(last.table).conn
               THEN RowsOf(last.id, last.batch) ELSE <<>>)

\* C6: once a local insert_batches call for a registered project has returned
\* successfully, the handle the catalog holds for that project shows the
\* call's rows.
C6_HandleIsPostCommit ==
    (last.kind = "insert" /\ last.res.ok /\ last.reg)
    => CallRowsIn(Visible(store, handles, EntryOf(last.table).table), last.id)
          = RowsOf(last.id, last.batch)

\* ---------------------------------------------------------------- C5
AllCallRows(id) == CallRowsIn(store["u0"].log \o store["u1"].log, id)

ScanSeesAllOrNone ==
    (last.kind = "scan" /\ last.res.ok)
    => \A id \in 0..ncalls :
          \/ CallRowsIn(last.rows, id) = <<>>
          \/ CallRowsIn(last.rows, id) = FilterRows(AllCallRows(id), last.filters)

FailedInsertWritesNothing ==
    (last.kind = "insert" /\ ~last.res.ok /\ last.table_ref /= 0)
    => last.res.err = "Database" /\ AllCallRows(last.id) = <<>>

FailedCommitKeepsHandle ==
    \A t \in Tasks :
        (pc[t] = "ins_commit" /\ pc'[t] = "idle" /\ ~last'.res.ok)
        => /\ store' = store
           /\ handles'[op[t].table_ref].ver = handles[op[t].table_ref].ver
           /\ handles[op[t].table_ref].ver = op[t].snap

\* C5: a commit is atomic: a scan sees none or all of a call's rows, and a
\* failed commit returns the table format's error, leaves the handle at its
\* pre-call state and makes none of the call's rows visible.
C5_AtomicCommit ==
    /\ [](ScanSeesAllOrNone /\ FailedInsertWritesNothing)
    /\ [][FailedCommitKeepsHandle]_vars

\* A two-row commit failed while the other task was scanning the same handle.
C5_Witness ==
    /\ last.kind = "insert" /\ ~last.res.ok /\ last.res.err = "Database"
    /\ Len(Flatten(last.batch)) = 2
    /\ \E t \in Tasks : pc[t] = "scan_read" /\ op[t].bound = last.table_ref

\* ---------------------------------------------------------------- C7
ResolveReturnsEntry ==
    \A t \in Tasks :
        (pc[t] = "scan_resolve" /\ pc'[t] /= "scan_resolve")
        => LET id == op[t].project_id
           IN  /\ catalog[id] /= NoEntry
                    => pc'[t] = "scan_read" /\ op'[t].bound = catalog[id].table
               /\ (catalog[id] = NoEntry /\ id /= "default"
                        /\ catalog["default"] /= NoEntry)
                    => pc'[t] = "scan_read" /\ op'[t].bound = catalog["default"].table

\* C7: resolve_table(id) returns the handle registered under id when id is in
\* the catalog, and the default project's handle when id is absent, is not
\* "default", and "default" is registered.
C7_ResolveTable == [][ResolveReturnsEntry]_vars

\* One scan bound to the registered p1, another fallen back to default.
C7_Witness ==
    /\ catalog["test_project"] /= NoEntry
    /\ pc["t1"] = "scan_read" /\ pc["t2"] = "scan_read"
    /\ \E t, s \in Sessions :
        /\ op[t].project_id = "test_project" /\ op[t].bound = catalog["test_project"].table
        /\ op[s].project_id = "missing" /\ op[s].bound = catalog["default"].table
        /\ catalog["test_project"].table /= catalog["default"].table

\* ---------------------------------------------------------------- C8
ResolveFailsExactlyWhenUnknown ==
    (pc["t1"] = "scan_resolve" /\ pc'["t1"] /= "scan_resolve")
    => LET id == op["t1"].project_id
           failed == pc'["t1"] = "idle" /\ last'.res = Err("UnknownProject")
       IN  /\ failed <=> (catalog[id] = NoEntry /\ catalog["default"] = NoEntry)
           /\ catalog' = catalog
           /\ failed => (handles' = handles /\ last'.rows = <<>> /\ last'.bound = 0)
           /\ ~failed => pc'["t1"] = "scan_read"

\* C8: resolve_table(id) fails with UnknownProject exactly when neither id nor
\* "default" is in the catalog; the failing call leaves the catalog unchanged
\* and the scan returns the error, bound to no table.
C8_UnknownProject == [][ResolveFailsExactlyWhenUnknown]_vars

\* The scan named "default" while only p1 was registered, and failed.
C8_Witness ==
    /\ last.kind = "scan" /\ last.res = Err("UnknownProject")
    /\ last.project_id = "default"
    /\ Registered(catalog) = {"test_project"}

\* ---------------------------------------------------------------- C9
DefaultRegistered ==
    /\ dbState = "ready" => catalog["default"] /= NoEntry
    /\ ncalls > 0 => dbState = "ready"
    /\ (last.kind = "register" /\ last.ctor /\ ~last.res.ok) => dbState = "failed"

\* C9: once Database::new has returned successfully "default" is in the
\* catalog in every state; a failed registration of default fails the
\* construction; and no step removes a catalog entry.
C9_DefaultAlwaysRegistered ==
    /\ []DefaultRegistered
    /\ [][Registered(catalog) \subseteq Registered(catalog')]_vars

\* After a registration of p1 and a flush of both handles, default is there.
C9_Witness ==
    /\ dbState = "ready"
    /\ last.kind = "flush" /\ last.res.ok /\ last.seen = {"default", "test_project"}
    /\ Registered(catalog) = {"default", "test_project"}

\* --------------------------------------------------------------- C10
IsPidEquality(f, X) ==
    \/ f = Bin(Col("project_id"), "Eq", Lit("Utf8", X))
    \/ f = Bin(Lit("Utf8", X), "Eq", Col("project_id"))

RECURSIVE MentionsPid(_)
MentionsPid(e) ==
    IF e.k = "col" THEN e.name = "project_id"
    ELSE IF e.k = "lit" THEN FALSE
    ELSE IF e.k = "bin" THEN MentionsPid(e.l) \/ MentionsPid(e.r)
    ELSE MentionsPid(e.e)

\* The literal of the first project_id equality, no earlier filter naming
\* the column.
LeadingEquality(F, X) ==
    \E i \in 1..Len(F) :
        /\ IsPidEquality(F[i], X)
        /\ \A j \in 1..(i - 1) : ~MentionsPid(F[j])

\* The scan resolved its table and called the table's scan, which returned
\* its plan or its error.
ReachedTable(rec) == rec.res.ok \/ rec.res = Err("External")

\* C10: a filter project_id = 'X' or 'X' = project_id (X a non-null Utf8
\* literal) binds the scan to X: resolve_table is called with X.
C10_EqualityBindsProject ==
    \A X \in ProjectIds :
        /\ \A t \in Tasks :
              (pc[t] \in {"scan_resolve", "scan_read"} /\ LeadingEquality(op[t].filters, X))
              => /\ op[t].project_id = X
                 /\ pc[t] = "scan_read" => Some(op[t].bound) = resolve_table(catalog, X)
        /\ (last.kind = "scan" /\ LeadingEquality(last.filters, X))
              => /\ last.project_id = X
                 /\ IF ReachedTable(last) THEN Some(last.bound) = resolve_table(catalog, X)
                    ELSE resolve_table(catalog, X) = None

\* A scan with 'missing' = project_id after a filter on level: resolve_table
\* was called with "missing" and fell back to the default handle.
C10_Witness ==
    /\ last.kind = "scan" /\ last.res.ok
    /\ last.filters = << Bin(Col("level"), "Eq", Lit("Utf8", "ERROR")),
                         Bin(Lit("Utf8", "missing"), "Eq", Col("project_id")) >>
    /\ last.project_id = "missing" /\ last.bound = catalog["default"].table
    /\ catalog["test_project"] /= NoEntry

\* The expression below every leading NOT.
RECURSIVE StripNots(_)
StripNots(e) == IF e.k = "not" THEN StripNots(e.e) ELSE e

\* NOT ... NOT (project_id = 'X'), one NOT or more.
NotWrappedEquality(f, X) == f.k = "not" /\ IsPidEquality(StripNots(f), X)

LeadingNotWrapped(F, X) ==
    \E i \in 1..Len(F) :
        /\ NotWrappedEquality(F[i], X)
        /\ \A j \in 1..(i - 1) : ~MentionsPid(F[j])

\* Every scan whose filter list satisfies P is bound to X: resolve_table is
\* called with X and the handle read is the one it returns.
ScanBinds(P(_), X) ==
    /\ \A t \in Tasks :
          (pc[t] \in {"scan_resolve", "scan_read"} /\ P(op[t].filters))
          => /\ op[t].project_id = X
             /\ pc[t] = "scan_read" => Some(op[t].bound) = resolve_table(catalog, X)
    /\ (last.kind = "scan" /\ P(last.filters))
          => /\ last.project_id = X
             /\ IF ReachedTable(last) THEN Some(last.bound) = resolve_table(catalog, X)
                ELSE resolve_table(catalog, X) = None

\* C11: a project_id equality below any number of nested NOTs binds the scan
\* exactly as the bare equality does: NOT (project_id = 'X') binds to X.
C11_NotWrappedBinds ==
    \A X \in ProjectIds : ScanBinds(LAMBDA F : LeadingNotWrapped(F, X), X)

\* A scan with NOT (NOT (project_id = 'p1')) read p1's own table.
C11_Witness ==
    /\ last.kind = "scan" /\ last.res.ok
    /\ last.filters = << Not(Not(PidEq("test_project"))) >> /\ last.limit = None
    /\ catalog["test_project"] /= NoEntry /\ catalog["default"] /= NoEntry
    /\ last.project_id = "test_project" /\ last.bound = catalog["test_project"].table
    /\ Len(last.rows) = 1

\* The scans in progress and the last one returned.
ScanCalls == { o \in {op[t] : t \in Tasks} \cup {last} : o.kind = "scan" }

\* A filter that is neither an equality of project_id with a non-null Utf8
\* literal nor NOTs around one.
NonBinding(f) ==
    LET g == StripNots(f)
    IN  ~ /\ g.k = "bin"
          /\ g.o = "Eq"
          /\ \/ IsPidColumn(g.l) /\ IsUtf8Some(g.r)
             \/ IsPidColumn(g.r) /\ IsUtf8Some(g.l)

\* C12: a filter that is neither a project_id/Utf8-literal equality nor a NOT
\* around one contributes no binding: a list of such filters yields no
\* literal, and such filters in front of a binding one are passed over.
C12_OtherFiltersIgnored ==
    \A o \in ScanCalls :
        /\ (\A i \in 1..Len(o.filters) : NonBinding(o.filters[i])) => o.extracted = None
        /\ \A X \in ProjectIds, i \in 1..Len(o.filters) :
              ( /\ IsPidEquality(StripNots(o.filters[i]), X)
                /\ \A j \in 1..(i - 1) : NonBinding(o.filters[j]) )
              => o.extracted = Some(X)

\* A scan whose filters are an AND holding project_id = 'p1' and an OR of two
\* project_id equalities yielded no literal and read the default table,
\* p1 being registered.
C12_Witness ==
    /\ last.kind = "scan" /\ last.res.ok
    /\ last.filters = << Bin(PidEq("test_project"), "And", Bin(Col("level"), "Eq", Lit("Utf8", "ERROR"))),
                         Bin(PidEq("test_project"), "Or", PidEq("default")) >>
    /\ last.extracted = None
    /\ catalog["test_project"] /= NoEntry /\ catalog["default"] /= NoEntry
    /\ last.bound = catalog["default"].table

NoFilterBinds(F) == \A i \in 1..Len(F) : NonBinding(F[i])

\* C13: when no filter yields a literal, the empty filter list included, the
\* scan binds to the default project name configured in the routing table.
C13_FallbackToDefaultName ==
    ScanBinds(NoFilterBinds, DefaultProject)

\* A scan without filters read every visible row of the default table, p1
\* being registered.
C13_Witness ==
    /\ last.kind = "scan" /\ last.res.ok
    /\ last.filters = <<>> /\ last.limit = None
    /\ last.project_id = DefaultProject
    /\ catalog["test_project"] /= NoEntry /\ catalog["default"] /= NoEntry
    /\ last.bound = catalog["default"].table
    /\ last.rows = Visible(store, handles, catalog["default"].table)
    /\ Len(last.rows) = 2

\* Several filters of F yield a literal and the first of them yields X.
FirstOfSeveral(F, X) ==
    \E i \in 1..Len(F), j \in 1..Len(F) :
        /\ i < j
        /\ IsPidEquality(StripNots(F[i]), X)
        /\ ~NonBinding(F[j])
        /\ \A k \in 1..(i - 1) : NonBinding(F[k])

\* C14: a scan has exactly one binding: when several filters yield a literal
\* the first one in list order decides, whatever the later ones name.
C14_FirstLiteralWins ==
    \A X \in ProjectIds : ScanBinds(LAMBDA F : FirstOfSeveral(F, X), X)

\* A scan with project_id = 'p1' followed by 'default' = project_id read
\* p1's table, both projects being registered.
C14_Witness ==
    /\ last.kind = "scan" /\ last.res.ok
    /\ last.filters = << PidEq("test_project"), Bin(Lit("Utf8", "default"), "Eq", Col("project_id")) >>
    /\ catalog["test_project"] /= NoEntry /\ catalog["default"] /= NoEntry
    /\ last.project_id = "test_project" /\ last.bound = catalog["test_project"].table
    /\ last.bound /= catalog["default"].table

\* C15: scan removes and rewrites nothing: the bound table's scan receives
\* the projection, the complete filter list and the limit of the call.
C15_ArgumentsPassedUnchanged ==
    last.kind = "scan"
    => IF ReachedTable(last)
       THEN last.passed = Some([projection |-> last.projection,
                                filters |-> last.filters,
                                limit |-> last.limit])
       ELSE last.passed = None

\* A scan with a projection, a limit and the binding filter
\* NOT (project_id = 'default') handed all three to the default table.
C15_Witness ==
    /\ last.kind = "scan" /\ last.res.ok
    /\ last.projection = Some(<<0>>) /\ last.limit = Some(1)
    /\ last.filters = << Not(PidEq("default")), IsNotNull(Col("project_id")) >>
    /\ last.passed /= None
    /\ last.passed[1].filters = last.filters
    /\ last.bound = catalog["default"].table
    /\ Len(last.rows) = 1

\* C16: supports_filters_pushdown answers Inexact for every filter: n filters
\* in, exactly n entries out, each of them Inexact.
C16_PushdownAllInexact ==
    \A o \in ScanCalls :
        /\ Len(o.pushdown) = Len(o.filters)
        /\ \A i \in 1..Len(o.pushdown) : o.pushdown[i] = "Inexact"

\* The planner asked about a binding filter and a filter on another column.
C16_Witness ==
    /\ last.kind = "scan"
    /\ last.filters = << PidEq("test_project"), Bin(Col("level"), "Eq", Lit("Utf8", "ERROR")) >>
    /\ last.pushdown = << "Inexact", "Inexact" >>

\* C17: every row a query receives from a scan with filters F satisfies every
\* filter of F, also when the scan was bound to another project's data: the
\* engine evaluates the Inexact filters again on what the table produced.
C17_RowsSatisfyFilters ==
    (last.kind = "scan" /\ last.res.ok)
    => \A i \in 1..Len(last.rows) : Satisfies(last.rows[i], last.filters)

\* NOT (project_id = 'default') was bound to the default table, which holds a
\* row of default and a row of p1: only the row of p1 was delivered.
C17_Witness ==
    /\ last.kind = "scan" /\ last.res.ok
    /\ last.filters = << Not(PidEq("default")) >> /\ last.limit = None
    /\ last.project_id = "default" /\ last.bound = catalog["default"].table
    /\ Len(Visible(store, handles, last.bound)) = 2
    /\ last.rows = << OldProjectRow >>

\* The batches of a stream without error.
StreamBatches(S) == [i \in 1..Len(S) |-> S[i].batch]

\* C18: the sink commits every batch of its stream to the default project's
\* table, whatever project_id the rows carry and whichever projects are
\* registered; a SQL INSERT changes no other project's table.
C18_SinkCommitsToDefault ==
    /\ (last.kind = "sink" /\ last.res.ok)
       => \A u \in Uris :
             CallRowsIn(store[u].log, last.id) =
                 IF u = DefaultUri THEN RowsOf(last.id, StreamBatches(last.input))
                 ELSE <<>>
    /\ \A u \in Uris \ {DefaultUri} :
          \A i \in 1..Len(store[u].log) : store[u].log[i].call = 0

\* An INSERT of rows of p1 and default returned while p1 was registered:
\* its three rows are in the default table and p1's table is empty.
C18_Witness ==
    /\ last.kind = "sink" /\ last.res.ok
    /\ last.input = << Batch(<<SqlRecord, TestSpan2>>), Batch(<<TestSpan2>>) >>
    /\ catalog["test_project"] /= NoEntry /\ store[UriOf("test_project")].exists
    /\ store[UriOf("test_project")].log = <<>>
    /\ Len(CallRowsIn(store[DefaultUri].log, last.id)) = 3

\* The rows of call id lie in `log` as one block equal to `rows`.
OneBlock(log, id, rows) ==
    /\ CallRowsIn(log, id) = rows
    /\ \E k \in 0..(Len(log) - Len(rows)) : SubSeq(log, k + 1, k + Len(rows)) = rows

\* C19: a successful write_all returns the sum of the row counts of all the
\* batches it pulled, and these batches are committed together by the one
\* insert call.
C19_SinkRowCount ==
    (last.kind = "sink" /\ last.res.ok)
    => /\ last.stream = <<>>
       /\ last.new_batches = StreamBatches(last.input)
       /\ last.batch = last.new_batches
       /\ last.res = OkValue(Len(Flatten(StreamBatches(last.input))))
       /\ OneBlock(store[DefaultUri].log, last.id,
                   RowsOf(last.id, StreamBatches(last.input)))

\* An INSERT of two batches, of two rows and of one row, returned 3 while the
\* table also holds the rows of another INSERT.
C19_Witness ==
    /\ last.kind = "sink" /\ last.res = OkValue(3)
    /\ Len(last.input) = 2
    /\ \E i \in 1..Len(store[DefaultUri].log) :
          store[DefaultUri].log[i].call \notin {0, last.id}

\* C20 as stated: every insert_into with a mode other than Append fails with
\* the not-implemented error, plans no sink and commits nothing.
C20_NonAppendUnimplemented ==
    (last.kind = "sink" /\ last.insert_op /= "Append")
    => /\ last.res = Err("NotImplemented")
       /\ ~last.plan
       /\ \A u \in Uris : CallRowsIn(store[u].log, last.id) = <<>>

\* C20, amended: every insert_into with a mode other than Append fails, plans
\* no sink and commits nothing; the error is the not-implemented error when
\* the input schema is equivalent to the table's and the schema error
\* otherwise, the schema being checked first.
C20_NonAppendRejected ==
    (last.kind = "sink" /\ last.insert_op /= "Append")
    => /\ last.res = IF logically_equivalent_names_and_types(TableSchema, last.schema)
                     THEN Err("NotImplemented") ELSE Err("SchemaMismatch")
       /\ ~last.plan
       /\ last.input = <<>> /\ last.new_batches = <<>>
       /\ \A u \in Uris : CallRowsIn(store[u].log, last.id) = <<>>

\* An INSERT OVERWRITE with the table's schema was rejected after an INSERT
\* had committed rows.
C20_Witness ==
    /\ last.kind = "sink" /\ last.insert_op = "Overwrite"
    /\ last.schema = TableSchema
    /\ last.res = Err("NotImplemented") /\ ~last.plan
    /\ \E i \in 1..Len(store[DefaultUri].log) : store[DefaultUri].log[i].call /= 0

\* The schemas that differ from the table's in a name, a type or the number
\* of columns.
Mismatched(schema) ==
    \/ Len(schema) /= Len(TableSchema)
    \/ \E i \in 1..Len(TableSchema) :
          i <= Len(schema) /\ schema[i] /= TableSchema[i]

\* C21: insert_into fails with the schema error when the input plan's schema
\* is not name-and-type equivalent to the table's, before any batch is pulled
\* or committed; with an equivalent schema and Append it returns a sink plan.
C21_SchemaCheckedAtPlanTime ==
    /\ \A t \in Tasks :
          (op[t].kind = "sink")
          => op[t].plan /\ ~Mismatched(op[t].schema) /\ op[t].insert_op = "Append"
    /\ last.kind = "sink"
       => /\ Mismatched(last.schema)
             => /\ last.res = Err("SchemaMismatch")
                /\ ~last.plan
                /\ last.input = <<>> /\ last.new_batches = <<>> /\ last.row_count = 0
                /\ \A u \in Uris : CallRowsIn(store[u].log, last.id) = <<>>
          /\ (~Mismatched(last.schema) /\ last.insert_op = "Append") => last.plan

\* An INSERT whose input has an Int64 timestamp was rejected after another
\* INSERT had committed rows.
C21_Witness ==
    /\ last.kind = "sink" /\ last.insert_op = "Append"
    /\ last.schema = << [name |-> "project_id", ty |-> "Utf8"],
                        [name |-> "timestamp", ty |-> "Int64"] >>
    /\ last.res = Err("SchemaMismatch") /\ ~last.plan
    /\ \E i \in 1..Len(store[DefaultUri].log) : store[DefaultUri].log[i].call /= 0

Holder(L, t) == L.w = t \/ t \in L.r

\* No task that arrives later is granted a handle's lock while a writer waits
\* for it: whoever becomes a holder was ahead of every waiting writer.
NoOvertaking ==
    \A h \in 1..Len(handles) :
        LET L == handles[h].lock
            M == handles'[h].lock
        IN  \A i \in 1..Len(L.q) :
                L.q[i].m = "w"
                => \A s \in Tasks \ {L.q[i].t} :
                      (Holder(M, s) /\ ~Holder(L, s))
                      => \E j \in 1..(i - 1) : L.q[j].t = s

\* The head of a queue is waiting for a holder: it is granted the lock as
\* soon as the holders and the earlier requesters have released.
HeadWaitsForHolder ==
    \A h \in 1..Len(handles) :
        LET L == handles[h].lock
        IN  L.q /= <<>> => ~Compatible(L, Head(L.q).m)

\* C22: the writer lock of a table handle is FIFO-fair: a waiting writer is
\* granted the lock once the holders and the earlier requesters release, no
\* later reader or writer is granted it first, and every insert that waits
\* for the lock eventually commits or fails.
C22_WriterLockFifoFair ==
    /\ [][NoOvertaking]_vars
    /\ []HeadWaitsForHolder
    /\ \A t \in Tasks : (pc[t] = "ins_lock") ~> (pc[t] = "idle")

\* An insert waits for the writer lock behind a scan that reads the table,
\* and a later scan waits behind the insert.
C22_Witness ==
    \E t, s, r \in Tasks :
        /\ pc[t] = "ins_lock" /\ pc[s] = "scan_read" /\ pc[r] = "scan_read"
        /\ LET L == handles[op[t].table_ref].lock
           IN  /\ s \in L.r
               /\ L.q = << [t |-> t, m |-> "w"], [t |-> r, m |-> "r"] >>

AllIdle == \A t \in Tasks : pc[t] = "idle"

\* C23: register_project repeated with the same id, URI and credentials is
\* idempotent: unless the store fails, the second call succeeds, the catalog
\* has the same keys, no table has been created and the project's handle
\* shows the rows it showed after the first call.
C23_RegisterIdempotent ==
    (AllIdle /\ last.kind = "register" /\ last.again /\ last.loaded /= "io_error")
    => /\ last.res.ok
       /\ ~last.create
       /\ Registered(catalog) = last.keys
       /\ {x \in Uris : store[x].exists} = last.tables
       /\ Visible(store, handles, catalog[last.project].table) = last.rows

\* The default project was registered twice in a row after an insert: both
\* times its handle showed the old row and the inserted one.
C23_Witness ==
    /\ AllIdle /\ last.kind = "register" /\ last.again /\ last.res.ok
    /\ last.project = DefaultProject
    /\ Len(last.rows) = 2
    /\ Visible(store, handles, catalog[DefaultProject].table) = last.rows

\* C24: in register_project only the table-not-present load error leads to a
\* create: after any other load error no create is attempted, the error is
\* returned and the catalog and the store are as they were.
C24_OnlyNotFoundCreates ==
    /\ \A t \in Tasks :
          (op[t].kind = "register" /\ op[t].loaded = "io_error") => ~op[t].create
    /\ (last.kind = "register" /\ last.loaded = "io_error")
       => /\ ~last.create
          /\ ~last.res.ok
          /\ AllIdle => /\ Registered(catalog) = last.keys
                        /\ {x \in Uris : store[x].exists} = last.tables

\* C25: register_project calls for a project whose table is not present all
\* succeed also when they run concurrently: one call creates the table, the
\* others open it, and the catalog has the project's entry.
C25_ConcurrentRegisterSucceeds ==
    (last.kind = "register" /\ last.loaded = "not_found" /\ ~last.fault)
    => /\ last.res.ok
       /\ catalog[last.project] /= NoEntry

\* The handle the catalog holds for project p shows a row committed by
\* another process.
ExtSeen(c, hs, st, p) ==
    /\ c[p] /= NoEntry
    /\ \E i \in 1..hs[c[p].table].ver : st[hs[c[p].table].uri].log[i] = ExternalRow

\* Some project's handle shows such a row after the step and not before.
ExtBecomesVisible ==
    \E p \in Projects :
        ExtSeen(catalog', handles', store', p) /\ ~ExtSeen(catalog, handles, store, p)

\* The step is taken by a task at one of the given positions.
StepAt(labels) == \E t \in Tasks : pc[t] \in labels /\ pc'[t] /= pc[t]

\* A successful flush has reopened every registered handle: each shows at
\* least what was committed when the flush was called.
FlushShowsCommitted ==
    (last.kind = "flush" /\ last.res.ok)
    => \A p \in Registered(catalog) :
          LET h == handles[catalog[p].table]
          IN  h.ver >= last.committed[h.uri] /\ h.ver <= Len(store[h.uri].log)

FlushReopensAll ==
    (last' /= last /\ last'.kind = "flush" /\ last'.res.ok)
    => last'.seen = Registered(catalog)

\* C26 as stated: a commit of another process becomes visible to local scans
\* only by flush_pending_writes, and after a successful flush every handle
\* shows the committed state.
C26_ExternalVisibleOnlyByFlush ==
    /\ [][ExtBecomesVisible => StepAt({"fl_lock"})]_vars
    /\ [][FlushReopensAll]_vars
    /\ []FlushShowsCommitted

\* C26, amended: scans read the handle the catalog holds and never refresh
\* it; a commit of another process becomes visible only when the handle is
\* replaced, which flush_pending_writes does, and so do a local insert that
\* commits to the table and a registration that reloads it; after a
\* successful flush every registered handle has been reopened and shows what
\* was committed when the flush was called.
C26_ExternalVisibleByHandleReplacement ==
    /\ [][ExtBecomesVisible => StepAt({"fl_lock", "ins_commit", "reg_install"})]_vars
    /\ [][StepAt({"scan_resolve", "scan_read"})
            => /\ catalog' = catalog /\ store' = store
               /\ \A h \in 1..Len(handles) : handles'[h].ver = handles[h].ver]_vars
    /\ [][FlushReopensAll]_vars
    /\ []FlushShowsCommitted

\* A flush returned that was called right after another process had
\* committed to the default table: the handle shows that row and the whole
\* log.
C26_Witness ==
    /\ last.kind = "flush" /\ last.res.ok /\ AllIdle
    /\ last.committed[DefaultUri] >= 1
    /\ store[DefaultUri].log[last.committed[DefaultUri]] = ExternalRow
    /\ ExtSeen(catalog, handles, store, DefaultProject)
    /\ handles[catalog[DefaultProject].table].ver = Len(store[DefaultUri].log)

\* --------------------------------------------------------------- C27
\* The connections under way, and the one that ended last.
Conns == { op[t] : t \in { s \in Tasks : op[s].kind = "conn" } }
Refusals == { "Authentication failed", "No password provided", "Expected Startup message" }
SentBefore(c, i, m) == \E j \in 1..(i - 1) : c.sent[j] = m

\* C27: on every connection ReadyForQuery is sent only after
\* AuthenticationOk; a connection whose authentication failed was sent
\* neither; and a query is processed only on a connection that was sent
\* AuthenticationOk.
C27_ReadyOnlyAfterAuthenticationOk ==
    \A c \in Conns :
        /\ \A i \in 1..Len(c.sent) :
               c.sent[i] = "ReadyForQuery(Idle)" => SentBefore(c, i, "AuthenticationOk")
        /\ (~c.res.ok /\ c.res.err \in Refusals) => c.sent = <<>>
        /\ c.query /= None => (Len(c.sent) >= 2 /\ c.sent[1] = "AuthenticationOk")

\* A connection sent AuthenticationOk and then ReadyForQuery has had a
\* query processed and has ended.
C27_Witness ==
    \E c \in Conns :
        /\ pc["t1"] = "conn_closed" /\ c.res.ok /\ c.query /= None
        /\ SubSeq(c.sent, 1, 2) = << "AuthenticationOk", "ReadyForQuery(Idle)" >>

\* --------------------------------------------------------------- C28
\* The connection's handshake has been decided, and it was authenticated.
Decided(t) == op[t].kind = "conn" /\ pc[t] /= "conn_startup"
Authenticated(t) ==
    pc[t] \in {"conn_send", "conn_ready", "conn_handler"}
    \/ (pc[t] = "conn_closed" /\ (op[t].res.ok \/ op[t].res.err \notin Refusals))

\* The user database holds `name`, and its entry for it is the hash of pw.
KnownUser(users, name) == \E i \in 1..Len(users) : users[i].username = name
EntryMatches(users, name, pw) ==
    \E i \in 1..Len(users) :
        /\ users[i].username = name
        /\ \A j \in 1..(i - 1) : users[j].username /= name
        /\ users[i].hashed_password = Hash(pw)

SentUser(c) == IF c.msg.user = None THEN "" ELSE c.msg.user[1]
SentPassword(c) == c.msg.password \notin {None, Some("")}

\* C28: a connection is authenticated exactly when the client sent a
\* non-empty password that verifies against the user database entry of its
\* username, or sent no password and the process-wide fallback password is
\* accepted for it; an unknown username, a wrong password, and no password
\* with no fallback configured all end in failure.
C28_AuthenticatedExactlyWhenVerified ==
    \A t \in Tasks : Decided(t) =>
        LET c == op[t]
        IN  /\ Authenticated(t) <=>
                  \/ SentPassword(c) /\ EntryMatches(c.users, SentUser(c), c.msg.password[1])
                  \/ ~SentPassword(c) /\ c.fallback /= None
                       /\ EntryMatches(c.users, SentUser(c), c.fallback[1])
            /\ ~KnownUser(c.users, SentUser(c)) => ~Authenticated(t)
            /\ (~SentPassword(c) /\ c.fallback = None) => ~Authenticated(t)

\* A client that sent no password was authenticated by the fallback
\* password, while the same client would have been refused without it.
C28_Witness ==
    \E t \in Tasks :
        /\ Decided(t) /\ pc[t] = "conn_ready" /\ ~SentPassword(op[t])
        /\ op[t].fallback /= None
        /\ on_startup(op[t].msg, op[t].users, None) = "No password provided"

\* --------------------------------------------------------------- C29
\* The first keyword of a statement: the letters it starts with once its
\* leading whitespace is dropped, in lower case.
RECURSIVE LeadingWord(_)
LeadingWord(q) ==
    IF q /= <<>> /\ Head(q) \in Letters THEN <<Head(q)>> \o LeadingWord(Tail(q)) ELSE <<>>
FirstKeyword(q) == to_lowercase(LeadingWord(trim_start(q)))

DirectVerbs == { "insert_record", "update_record", "delete_record" }
VerbOf(word) ==
    CASE word = Insert -> "insert_record" [] word = Update -> "update_record"
      [] word = Delete -> "delete_record" [] OTHER -> "sql"

\* C29: a simple query goes to the direct database verb exactly when its
\* first keyword, whatever its case and after leading whitespace, is INSERT,
\* UPDATE or DELETE; every other statement goes through the SQL engine.
C29_DispatchOnFirstKeyword ==
    \A t \in Tasks :
        (op[t].kind = "conn" /\ op[t].route \in DirectVerbs \cup {"sql"})
        => op[t].route = VerbOf(FirstKeyword(op[t].query[1]))

\* --------------------------------------------------------------- C30
\* Reads a row buffer as text-format values: a 16-bit count, then for each
\* value a 32-bit length and that many characters, or the length -1 for
\* NULL.  Gives the values, or <<"malformed">>.
RECURSIVE TextValues(_)
TextValues(data) ==
    IF data = <<>> THEN <<>>
    ELSE IF Head(data) = I32(-1)
    THEN (LET rest == TextValues(Tail(data))
          IN  IF rest = <<"malformed">> THEN rest ELSE <<None>> \o rest)
    ELSE IF /\ Len(data) >= 2 /\ Head(data).int = 32 /\ data[2].int = 0
            /\ Len(data[2].n) = Head(data).n
    THEN (LET rest == TextValues(Tail(Tail(data)))
          IN  IF rest = <<"malformed">> THEN rest ELSE <<Some(data[2].n)>> \o rest)
    ELSE <<"malformed">>

TextRow(row) ==
    IF row.data /= <<>> /\ Head(row.data) = I16(row.field_count)
    THEN TextValues(Tail(row.data)) ELSE <<"malformed">>

Responses == { op[t] : t \in { s \in Tasks : op[s].kind = "conn"
                                             /\ op[s].response /= NoResponse } }

\* C30: every column of a result, of a simple or an extended query and
\* whatever result format the portal asked for, is advertised with format
\* Text, and every row carries one text value per column: the value's text
\* with its length, or the length -1 where the value is NULL.
C30_ResultsAreText ==
    \A c \in Responses :
        /\ \A i \in 1..Len(c.response.fields) : c.response.fields[i].format = "Text"
        /\ \A r \in 1..Len(c.response.rows) :
               /\ TextRow(c.response.rows[r]) /= <<"malformed">>
               /\ Len(TextRow(c.response.rows[r])) = Len(c.response.fields)
        /\ c.result /= None =>
               LET df == c.result[1]
               IN  /\ Len(c.response.fields) = Len(df.schema)
                   /\ Len(c.response.rows) = Len(df.rows)
                   /\ \A r \in 1..Len(df.rows) : \A k \in 1..Len(df.rows[r]) :
                          TextRow(c.response.rows[r])[k] =
                              IF df.rows[r][k].null THEN None
                              ELSE Some(df.rows[r][k].text)

\* An extended query whose portal asked for binary results was answered
\* with rows, one of them holding a NULL.
C30_Witness ==
    \E c \in Responses :
        /\ c.route = "portal" /\ c.format = "UnifiedBinary" /\ c.result /= None
        /\ \E r \in 1..Len(c.result[1].rows) : \E k \in 1..Len(c.result[1].rows[r]) :
               c.result[1].rows[r][k].null

\* --------------------------------------------------------------- C31
\* C31: executing a portal whose statement has placeholders runs the plan
\* with each placeholder replaced by the value the client bound to it.
C31_BoundValuesSubstituted ==
    \A t \in Tasks :
        (op[t].kind = "conn" /\ op[t].route = "portal" /\ op[t].portal[1].placeholders > 0)
        => /\ op[t].executed /= None
           /\ op[t].executed[1] = op[t].portal[1].bound

\* --------------------------------------------------------------- C32
\* main returns while the token is not cancelled: the HTTP server's task
\* has finished.
ReturnsUncancelled == dbState = "ready" /\ dbState' = "exited"

AcceptedOnlyBeforeCancel ==
    \A t \in ConnTasks : (pc[t] = "idle" /\ pc'[t] = "socket_open") => dbState = "ready"
ConnectionNotAborted ==
    ~ReturnsUncancelled => \A t \in ConnTasks : pc'[t] = "aborted" => pc[t] = "aborted"
LoopExitsAfterCancel == (dbState = "cancelled") ~> (pc[AcceptLoop] /= "accept_loop")

\* C32: once the token is cancelled the accept loop eventually exits and
\* accepts no connection any more, and a connection task spawned before is
\* never aborted: it runs until its client finishes.
C32_StopsAcceptingKeepsConnections ==
    /\ [][AcceptedOnlyBeforeCancel]_vars
    /\ [][ConnectionNotAborted]_vars
    /\ LoopExitsAfterCancel

\* --------------------------------------------------------------- C33
RoundRunsThrough ==
    (pc[FlushTask] = "queue_round" /\ pc'[FlushTask] /= "queue_round" /\ ~ReturnsUncancelled)
    => (pc'[FlushTask] = "flush_select" /\ op[FlushTask].pending = <<>>)
CommitNotAborted ==
    (pc[WriteCall] \in {"ins_resolve", "ins_lock", "ins_commit"} /\ ~ReturnsUncancelled)
    => pc'[WriteCall] /= "aborted"
FlushTaskExitsAfterCancel ==
    (dbState = "cancelled") ~> (pc[FlushTask] \notin {"flush_select", "queue_round"})

\* C33: a commit that has started is never aborted by cancellation: a flush
\* round that has dequeued records leaves the round only after every
\* record's write has returned, with success or failure, and after
\* cancellation the flush task eventually exits.
C33_StartedCommitsComplete ==
    /\ [][RoundRunsThrough]_vars
    /\ [][CommitNotAborted]_vars
    /\ FlushTaskExitsAfterCancel

\* --------------------------------------------------------------- C34
\* The last two fields of the shape are project_id: Utf8 NOT NULL and then
\* timestamp: Timestamp(us) NOT NULL.
EndsAsExpected(fields) ==
    /\ Len(fields) >= 2
    /\ fields[Len(fields) - 1] = StructField("project_id", "string", FALSE)
    /\ fields[Len(fields)] = StructField("timestamp", "timestamp_ntz", FALSE)

ViewFilters == { <<>>, <<PidEq("default")>>, <<PidEq("test_project")>>, <<PidEq("missing")>> }
ScanViews(configs, hs, st) == [F \in ViewFilters |-> ScanView(configs, hs, st, F)]

\* Task t runs a sink insert whose stream held no row, and this step ends it.
EmptyInsertEnds(t) ==
    /\ pc[t] = "ins_commit" /\ op[t].kind = "sink" /\ Flatten(op[t].batch) = <<>>
    /\ pc'[t] = "idle"

EmptyInsertChangesNothing ==
    \A t \in Sessions : EmptyInsertEnds(t) =>
        /\ last'.res.ok => last'.res = OkValue(0)
        /\ ScanViews(catalog', handles', store') = ScanViews(catalog, handles, store)

\* C35: an insert whose stream holds no batch, or only zero-row batches,
\* commits, the sink reports the row count 0, and every scan delivers the
\* same rows after it as before.
C35_EmptyInsertChangesNothing == [][EmptyInsertChangesNothing]_vars

\* --------------------------------------------------------------- C36
\* The rows an unfiltered scan through the routing table delivers.
UnfilteredScan == ScanView(catalog, handles, store, <<>>)

\* Task t's insert ends with this step, successfully.
InsertSucceeds(t) ==
    /\ pc[t] = "ins_commit" /\ pc'[t] = "idle" /\ last'.res.ok

AppendOnly ==
    /\ \A u \in Uris : Len(store[u].log) <= Len(store'[u].log)
                       /\ Prefix(store'[u].log, Len(store[u].log)) = store[u].log
    /\ \A t \in Sessions : InsertSucceeds(t) =>
           ScanView(catalog', handles', store', <<>>)
               = UnfilteredScan \o RowsOf(op[t].id, op[t].batch)
    /\ (dbState = "ready" /\ \A t \in Sessions : ~InsertSucceeds(t)) =>
           ScanView(catalog', handles', store', <<>>) = UnfilteredScan

\* C36: across successful inserts, direct and through SQL in any order, the
\* table only grows: an unfiltered scan through the routing table delivers
\* the rows it delivered before followed by the rows of the insert, each
\* once, whatever their project_id; nothing else changes what it delivers,
\* and no earlier row disappears or is duplicated.
C36_AppendOnly == [][AppendOnly]_vars

\* After a direct insert and a SQL INSERT the unfiltered scan delivers the
\* initial row and the rows of both, among them one of an unregistered project.
C36_Witness ==
    /\ \A t \in Sessions : pc[t] = "idle"
    /\ dbState = "ready" /\ last.kind = "sink" /\ last.res.ok
    /\ \E i, j \in 1..Len(UnfilteredScan) :
           /\ UnfilteredScan[i].call /= UnfilteredScan[j].call
           /\ UnfilteredScan[i].call > 0 /\ UnfilteredScan[j].call > 0
           /\ UnfilteredScan[i].pid \notin Registered(catalog)
    /\ Len(UnfilteredScan) >= 3 /\ UnfilteredScan[1] = OldRow

\* --------------------------------------------------------------- C37
\* The handle the catalog holds for p shows every row committed to its table.
HandleCurrent(p) ==
    LET h == handles[catalog[p].table]
    IN  h.ver = Len(store[h.uri].log)

\* C37: when register_project runs for a registered project while an insert
\* for it is in flight, no committed batch is lost from local view: once
\* both have completed, the handle the catalog holds for the project
\* reflects the insert's commit.
C37_ReRegistrationKeepsCommits ==
    (dbState = "ready" /\ AllIdle) => \A p \in Registered(catalog) : HandleCurrent(p)

\* --------------------------------------------------------------- C38
Queued(L, t) == \E i \in 1..Len(L.q) : L.q[i].t = t
HoldsTableLock(t) == \E h \in 1..Len(handles) : Holder(handles[h].lock, t)
WaitsForTableLock(t) == \E h \in 1..Len(handles) : Queued(handles[h].lock, t)

\* No task waits for the catalog lock while it holds a table lock.
NoCatalogWaitUnderTableLock ==
    \A t \in Tasks : Queued(catLock, t) => ~HoldsTableLock(t)

\* C38: the catalog lock and the table locks never deadlock: under every
\* interleaving of scan, insert, register_project and flush_pending_writes
\* no task waits for the catalog lock while holding a table lock, and every
\* lock request is eventually granted.
C38_LocksNeverDeadlock ==
    /\ []NoCatalogWaitUnderTableLock
    /\ \A t \in Tasks : (Queued(catLock, t) \/ WaitsForTableLock(t))
                            ~> ~(Queued(catLock, t) \/ WaitsForTableLock(t))

\* A flush holds the catalog's read lock and waits for a table's write lock
\* behind an insert, while a re-registration waits for the catalog's write
\* lock.
C38_Witness ==
    \E f, i, r \in Tasks :
        /\ pc[f] = "fl_lock" /\ Holder(catLock, f) /\ WaitsForTableLock(f)
        /\ pc[i] = "ins_commit" /\ HoldsTableLock(i)
        /\ pc[r] = "reg_install" /\ Queued(catLock, r)

\* --------------------------------------------------------------- C39
\* The input stream of the sink call yields an error at some point.
StreamFails(rec) == rec.kind = "sink" /\ \E i \in 1..Len(rec.input) : ~rec.input[i].ok
Steps(t) == pc'[t] /= pc[t] \/ op'[t] /= op[t]

FailedStreamCommitsNothing ==
    \A t \in Sessions : (StreamFails(op[t]) /\ Steps(t)) =>
        /\ pc'[t] \in {"sink_pull", "idle"}
        /\ pc'[t] = "idle" => (last'.id = op[t].id /\ last'.res = Err("Stream"))
        /\ UNCHANGED <<store, handles, catalog, catLock>>

\* C39: when the input stream handed to the sink yields an error before it
\* is exhausted, write_all returns that error without calling
\* insert_records_batch: no batch pulled before is committed, and the table
\* handle is unchanged.
C39_StreamErrorCommitsNothing == [][FailedStreamCommitsNothing]_vars

\* A sink call has returned the stream's error after it had pulled a batch,
\* and no log holds a row of it.
C39_Witness ==
    /\ last.kind = "sink" /\ last.res = Err("Stream") /\ last.new_batches /= <<>>
    /\ \A u \in Uris : CallRowsIn(store[u].log, last.id) = <<>>

\* --------------------------------------------------------------- C40
\* Task t is reopening a handle in flush_pending_writes.
Reopens(t) == pc[t] = "fl_lock" /\ op[t].kind = "flush" /\ Steps(t)
HandleOf(p) == catalog[p].table
VisitedBefore(rec) == {HandleOf(p) : p \in rec.seen} \ {rec.cur}
Unvisited(rec) == {HandleOf(p) : p \in Registered(catalog) \ rec.seen}

FailedReopenKeepsHandles ==
    \A t \in Sessions : Reopens(t) =>
        \/ /\ pc'[t] = "fl_iter"
           /\ handles'[op[t].cur].ver = LoadTable(store, handles[op[t].cur].uri).ver
        \/ /\ pc'[t] = "idle"
           /\ last'.id = op[t].id /\ last'.res = Err("Database")
           /\ last'.seen = op[t].seen
           /\ ~Holder(catLock', t) /\ ~Queued(catLock', t)
           /\ \A h \in 1..Len(handles) : ~Holder(handles'[h].lock, t)
           /\ Len(handles') = Len(handles)
           /\ handles'[op[t].cur].ver = handles[op[t].cur].ver
           /\ handles'[op[t].cur].uri = handles[op[t].cur].uri
           /\ \A h \in VisitedBefore(op[t]) \cup Unvisited(op[t]) :
                  handles'[h] = handles[h]
           /\ UNCHANGED <<store, catalog>>

\* C40: when reopening one project's table fails during
\* flush_pending_writes, the call returns the error at once: the failing
\* handle keeps its previous state, the handles refreshed earlier in the
\* call stay as refreshed, and the remaining handles are not touched.
C40_FailedReopenKeepsHandles == [][FailedReopenKeepsHandles]_vars

\* A flush has returned the open error at its second handle: the first one
\* was refreshed to a commit of another process, the failing one holds a
\* loaded table.
C40_Witness ==
    /\ last.kind = "flush" /\ last.res = Err("Database")
    /\ \E h \in VisitedBefore(last) :
          /\ handles[h].ver = Len(store[handles[h].uri].log)
          /\ \E i \in 1..handles[h].ver : store[handles[h].uri].log[i] = ExternalRow
    /\ handles[last.cur].ver > 0
====
